---- MODULE Spec2Model ----
(***************************************************************************)
(* Model of the Tomasulo simulator (simulator.py and components/*.py).     *)
(*                                                                         *)
(* One Tick step is one call of Simulator.tick() from the loop of run():   *)
(* write_back, execute and issue run in that order on the state of the     *)
(* previous tick.  RunStep is one call of Simulator.run_step(), which      *)
(* calls tick() also before a trace is loaded, after the run has ended or  *)
(* after an exception has left a tick.  LoadTrace is                       *)
(* Simulator.load_trace().                                                 *)
(*                                                                         *)
(* Encoding of Python values:                                              *)
(*   - names (opcodes, register names, station tags): strings, with the    *)
(*     string "None" for Python's None; the module is read as UTF-8, one   *)
(*     character of a Python string being one character of the string      *)
(*     here;                                                               *)
(*   - optional integers (operand values, offsets, addresses, timestamps,  *)
(*     the CDB value, instruction back-references): Nil = <<>> for None    *)
(*     and <<n>> for the integer n;                                        *)
(*   - a register or a memory cell holds its integer, or the string "None" *)
(*     once a None was written to it;                                      *)
(*   - CommonDataBus.busy is None or True: FALSE stands for None;          *)
(*   - Memory is [0] * MEMORY_SIZE: the model keeps only the cells that    *)
(*     were written, every other cell reads as 0.                          *)
(*                                                                         *)
(* Beside the fields of the simulator the state keeps: issued, the value   *)
(* returned by issue() in the last tick; results, the list returned by     *)
(* FunctionalUnits.tick() to the last write_back; producers, for every     *)
(* instruction the instructions whose tags it captured at issue; phase,    *)
(* the position of the caller (new, running, done, crashed).               *)
(***************************************************************************)
EXTENDS Integers, Sequences, FiniteSets, TLC

VARIABLES registers, status, stations, units, cdb, memory,
          instructions, pc, cycle, metrics, issued, phase, producers, results

vars == <<registers, status, stations, units, cdb, memory,
          instructions, pc, cycle, metrics, issued, phase, producers, results>>

None == "None"

Nil == <<>>

Some(n) == <<n>>

Val(v) == v[1]

\* A register or a memory cell holds an integer or Python's None, written
\* None here too.  is_none tells the two apart.
NoneText == ToString(None)

is_none(v) == ToString(v) = NoneText

\* The content of a cell as an optional integer, and an optional integer as
\* the content of a cell.
optional(v) == IF is_none(v) THEN Nil ELSE Some(v)

content(o) == IF o = Nil THEN None ELSE Val(o)

(***************************************************************************)
(* utils/config.py                                                         *)
(***************************************************************************)
NUM_REGISTERS == 8

NUM_ALU_UNITS == 2

NUM_MUL_DIV_UNITS == 1

NUM_LOAD_STORE_UNITS == 1

NUM_ALU_RS == 3

NUM_MUL_DIV_RS == 2

NUM_LOAD_BUFFER_ENTRIES == 2

NUM_STORE_BUFFER_ENTRIES == 2

MEMORY_SIZE == 1024

LATENCIES == [ADD |-> 2, SUB |-> 2, MUL |-> 10, DIV |-> 20, LOAD |-> 5, STORE |-> 5]

(***************************************************************************)
(* Bound of the explored inputs: the length of the trace.                  *)
(***************************************************************************)
MaxLen == 3

\* The cycle at which the exploration of a run that has not ended stops.
MaxCycle == 120

(***************************************************************************)
(* components/instruction.py                                               *)
(***************************************************************************)
Instruction(op, dest, src1, src2, offset, base) ==
    [op |-> op, dest |-> dest, src1 |-> src1, src2 |-> src2,
     offset |-> offset, base |-> base,
     issue_cycle |-> Nil, start_cycle |-> Nil,
     execute_complete_cycle |-> Nil, write_result_cycle |-> Nil]

RegName(i) == "R" \o ToString(i)

(***************************************************************************)
(* components/register_file.py                                             *)
(***************************************************************************)
\* The blanks int() removes around the literal, of which a string of this
\* module (read as UTF-8) holds these, in the order written: space, tab,
\* line feed, carriage return, form feed, vertical tab (U+000B), next line
\* (U+0085), no-break space (U+00A0) and ogham space mark (U+1680).  The
\* other blanks of int() (U+2000..U+200A, U+2028, U+2029, U+202F, U+205F,
\* U+3000) cannot be written in a string here, so no name of the model
\* holds one.  The separators U+001C..U+001F are no blanks for int().
Whitespace == {" ", "\t", "\n", "\r", "\f", "", "", " ", " "}

\* The decimal digits int() reads, by script, each row from zero to nine:
\* int() takes every character of Unicode's category Nd with its decimal
\* value, so R followed by U+06F7 is register 7 as R7 is, and
\* Instruction.parse keeps such a name as it is.  The rows are the scripts
\* whose digits can be written in a string here: ASCII,
\* Extended Arabic-Indic, Nko, Bengali, Gujarati, Tamil, Kannada, Sinhala,
\* Lao, Myanmar Shan, Khmer, New Tai Lue, Tai Tham Hora, Tai Tham Tham,
\* Sundanese, Saurashtra, Javanese, Myanmar Tai Laing, Meetei Mayek.
DigitRows ==
    <<"0123456789",
      "۰۱۲۳۴۵۶۷۸۹",
      "߀߁߂߃߄߅߆߇߈߉",
      "০১২৩৪৫৬৭৮৯",
      "૦૧૨૩૪૫૬૭૮૯",
      "௦௧௨௩௪௫௬௭௮௯",
      "೦೧೨೩೪೫೬೭೮೯",
      "෦෧෨෩෪෫෬෭෮෯",
      "໐໑໒໓໔໕໖໗໘໙",
      "႐႑႒႓႔႕႖႗႘႙",
      "០១២៣៤៥៦៧៨៩",
      "᧐᧑᧒᧓᧔᧕᧖᧗᧘᧙",
      "᪀᪁᪂᪃᪄᪅᪆᪇᪈᪉",
      "᪐᪑᪒᪓᪔᪕᪖᪗᪘᪙",
      "᮰᮱᮲᮳᮴᮵᮶᮷᮸᮹",
      "꣐꣑꣒꣓꣔꣕꣖꣗꣘꣙",
      "꧐꧑꧒꧓꧔꧕꧖꧗꧘꧙",
      "꧰꧱꧲꧳꧴꧵꧶꧷꧸꧹",
      "꯰꯱꯲꯳꯴꯵꯶꯷꯸꯹">>

\* The decimal value of each digit, its place in its row; the domain is the
\* set of the digits.
DigitValues ==
    [c \in {SubSeq(DigitRows[row], d, d) : row \in 1..Len(DigitRows), d \in 1..10} |->
        CHOOSE v \in 0..9 :
            \E row \in 1..Len(DigitRows) : SubSeq(DigitRows[row], v + 1, v + 1) = c]

digit_value(c) == DigitValues[c]

startswith(text, prefix) ==
    Len(text) >= Len(prefix) /\ SubSeq(text, 1, Len(prefix)) = prefix

RECURSIVE first_not_blank(_, _)
first_not_blank(text, i) ==
    IF i <= Len(text) /\ SubSeq(text, i, i) \in Whitespace
    THEN first_not_blank(text, i + 1) ELSE i

RECURSIVE last_not_blank(_, _)
last_not_blank(text, j) ==
    IF j >= 1 /\ SubSeq(text, j, j) \in Whitespace
    THEN last_not_blank(text, j - 1) ELSE j

strip(text) ==
    SubSeq(text, first_not_blank(text, 1), last_not_blank(text, Len(text)))

\* The digits of a decimal literal from position i on: one or more digits,
\* single underscores between digits only.  n is the value read so far and
\* after_digit tells that the character before i was a digit.  Nil is
\* ValueError.  A value above NUM_REGISTERS is kept as NUM_REGISTERS: the
\* register file only tests it against the range.
RECURSIVE int_digits(_, _, _, _)
int_digits(text, i, n, after_digit) ==
    IF i > Len(text) THEN (IF after_digit THEN Some(n) ELSE Nil)
    ELSE LET c == SubSeq(text, i, i)
         IN IF c \in DOMAIN DigitValues
            THEN LET m == 10 * n + digit_value(c)
                 IN int_digits(text, i + 1,
                               IF m > NUM_REGISTERS THEN NUM_REGISTERS ELSE m,
                               TRUE)
            ELSE IF c = "_" /\ after_digit
                 THEN int_digits(text, i + 1, n, FALSE)
                 ELSE Nil

\* The integer with the sign reversed; Nil stays Nil.
negated(magnitude) ==
    IF magnitude = Nil THEN Nil ELSE Some(0 - Val(magnitude))

\* int() of a string without blanks around it: an optional sign, then the
\* digits.
int_stripped(t) ==
    IF Len(t) >= 1 /\ SubSeq(t, 1, 1) = "-" THEN negated(int_digits(t, 2, 0, FALSE))
    ELSE IF Len(t) >= 1 /\ SubSeq(t, 1, 1) = "+" THEN int_digits(t, 2, 0, FALSE)
    ELSE int_digits(t, 1, 0, FALSE)

\* Python's int() of a string: surrounding blanks are dropped, then an
\* optional sign, then the digits.  Nil is ValueError.
int(text) == int_stripped(strip(text))

\* The test of the range in get_register_index: Nil when it raises.
index_in_range(index) ==
    IF index = Nil THEN Nil
    ELSE IF Val(index) < 0 \/ Val(index) >= NUM_REGISTERS THEN Nil
    ELSE index

\* get_register_index as a whole: the index it returns, Nil when it raises
\* ValueError.  It returns when the name starts with R, the rest is an
\* integer for int(), and the integer is in 0..NUM_REGISTERS-1.
register_index(reg_name) ==
    IF ~startswith(reg_name, "R") THEN Nil
    ELSE index_in_range(int(SubSeq(reg_name, 2, Len(reg_name))))

\* get_register_index returns for this name.
valid_register(reg_name) == register_index(reg_name) # Nil

\* The index returned for a name that valid_register accepts.
get_register_index(reg_name) == Val(register_index(reg_name))

\* The names R0..R7, which get_register_index turns into their number.
RegNames == {RegName(i) : i \in 0..(NUM_REGISTERS - 1)}

RegNameOf == [i \in 0..(NUM_REGISTERS - 1) |-> RegName(i)]

\* The name is one that get_register_index turns into the index r; the
\* destination None of a STORE or of a free station is no name.
names_register(reg_name, r) ==
    /\ reg_name # None
    /\ IF reg_name \in RegNames THEN reg_name = RegNameOf[r]
       ELSE register_index(reg_name) = Some(r)

read(regs, reg_name) == regs[get_register_index(reg_name)]

write(regs, reg_name, value) ==
    [regs EXCEPT ![get_register_index(reg_name)] = value]

get_status(st, reg_name) == st[get_register_index(reg_name)]

set_status(st, reg_name, reservation_station) ==
    [st EXCEPT ![get_register_index(reg_name)] = reservation_station]

\* register_file.py lines 91-100: every entry that names the station gets
\* the list [None], written "[None]" here; tick() never calls it.
clear_status(st, reservation_station) ==
    [i \in DOMAIN st |-> IF st[i] = reservation_station THEN "[None]" ELSE st[i]]

(***************************************************************************)
(* components/memory.py                                                    *)
(***************************************************************************)
MemRead(mem, address) ==
    IF address < 0 \/ address >= MEMORY_SIZE THEN 0
    ELSE IF address \in DOMAIN mem THEN mem[address] ELSE 0

\* write without the range test: any address is a cell.
MemWrite_unchecked(mem, address, value) ==
    [a \in (DOMAIN mem) \cup {address} |->
        IF a = address THEN value ELSE mem[a]]

\* write that drops the value at every address.
MemWrite_drops_value(mem, address, value) == mem

MemWrite(mem, address, value) ==
    IF address < 0 \/ address >= MEMORY_SIZE THEN mem
    ELSE [a \in (DOMAIN mem) \cup {address} |->
            IF a = address THEN value ELSE mem[a]]

(***************************************************************************)
(* components/common_data_bus.py                                           *)
(***************************************************************************)
CdbCleared == [reservation_station |-> None, value |-> Nil, busy |-> FALSE]

\* clear() that leaves the bus as the previous tick set it.
cdb_clear_keeps(bus) == bus

cdb_clear(bus) == CdbCleared

cdb_broadcast(bus, reservation_station, value) ==
    IF bus.busy = TRUE THEN bus
    ELSE [reservation_station |-> reservation_station, value |-> value,
          busy |-> TRUE]

(***************************************************************************)
(* components/reservation_station.py                                       *)
(***************************************************************************)
ReservationStation(name) ==
    [name |-> name, op |-> None, vj |-> Nil, vk |-> Nil, qj |-> None,
     qk |-> None, busy |-> FALSE, dest |-> None, instruction |-> Nil,
     offset |-> Nil, address |-> Nil, executing |-> FALSE,
     execution_cycles_left |-> 0]

\* isReady without the test of qk.
isReady_ignores_qk(rs) ==
    rs.busy /\ ~rs.executing /\ rs.qj = None

isReady(rs) ==
    rs.busy /\ ~rs.executing /\ rs.qj = None /\ rs.qk = None

\* clear() that leaves the station bound to its instruction.
clear_keeps_station(rs) == rs

clear(rs) ==
    [rs EXCEPT !.busy = FALSE, !.op = None, !.vj = Nil, !.vk = Nil,
               !.qj = None, !.qk = None, !.dest = None,
               !.instruction = Nil, !.address = Nil,
               !.executing = FALSE, !.execution_cycles_left = 0]

alu_stations == [i \in 1..NUM_ALU_RS |-> ReservationStation("ALU" \o ToString(i))]

mul_div_stations == [i \in 1..NUM_MUL_DIV_RS |-> ReservationStation("MUL" \o ToString(i))]

load_buffers == [i \in 1..NUM_LOAD_BUFFER_ENTRIES |-> ReservationStation("LOAD" \o ToString(i))]

store_buffers == [i \in 1..NUM_STORE_BUFFER_ENTRIES |-> ReservationStation("STORE" \o ToString(i))]

all_stations == alu_stations \o mul_div_stations \o load_buffers \o store_buffers

NumStations == Len(all_stations)

\* Positions of the four pools inside all_stations.
AluIdx == 1..NUM_ALU_RS

MulDivIdx == (NUM_ALU_RS + 1)..(NUM_ALU_RS + NUM_MUL_DIV_RS)

LoadIdx == (NUM_ALU_RS + NUM_MUL_DIV_RS + 1)..(NUM_ALU_RS + NUM_MUL_DIV_RS + NUM_LOAD_BUFFER_ENTRIES)

StoreIdx == (NUM_ALU_RS + NUM_MUL_DIV_RS + NUM_LOAD_BUFFER_ENTRIES + 1)..NumStations

\* Pool selection that sends SUB to the MUL/DIV stations.
PoolOf_sub_to_mul_div(op) ==
    IF op = "ADD" THEN AluIdx
    ELSE IF op \in {"SUB", "MUL", "DIV"} THEN MulDivIdx
    ELSE IF op = "LOAD" THEN LoadIdx
    ELSE IF op = "STORE" THEN StoreIdx
    ELSE {}

PoolOf(op) ==
    IF op \in {"ADD", "SUB"} THEN AluIdx
    ELSE IF op \in {"MUL", "DIV"} THEN MulDivIdx
    ELSE IF op = "LOAD" THEN LoadIdx
    ELSE IF op = "STORE" THEN StoreIdx
    ELSE {}

Min(S) == CHOOSE x \in S : \A y \in S : x <= y

\* Index in all_stations of the station found, 0 for None.
get_station_by_name(sts, name) ==
    IF \E i \in 1..Len(sts) : sts[i].name = name
    THEN Min({i \in 1..Len(sts) : sts[i].name = name})
    ELSE 0

\* Index in all_stations of the first free station of op's pool, 0 for None.
get_available_station(sts, op) ==
    IF \E i \in PoolOf(op) : ~sts[i].busy
    THEN Min({i \in PoolOf(op) : ~sts[i].busy})
    ELSE 0

\* update_from_cdb whose second test is missing: qk is never captured.
update_station_from_cdb_qj_only(station, cdb_name, cdb_value) ==
    IF station.qj = cdb_name
    THEN [station EXCEPT !.qj = None, !.vj = cdb_value]
    ELSE station

\* update_from_cdb that does not compare the tag: every pending operand
\* captures whatever is on the bus.
update_station_from_cdb_any_tag(station, cdb_name, cdb_value) ==
    LET a == IF station.qj # None
             THEN [station EXCEPT !.qj = None, !.vj = cdb_value]
             ELSE station
    IN IF a.qk # None
       THEN [a EXCEPT !.qk = None, !.vk = cdb_value]
       ELSE a

\* update_from_cdb that stores the value and leaves the tag in the slot.
update_station_from_cdb_keeps_tag(station, cdb_name, cdb_value) ==
    LET a == IF station.qj = cdb_name
             THEN [station EXCEPT !.vj = cdb_value]
             ELSE station
    IN IF a.qk = cdb_name
       THEN [a EXCEPT !.vk = cdb_value]
       ELSE a

update_station_from_cdb(station, cdb_name, cdb_value) ==
    LET a == IF station.qj = cdb_name
             THEN [station EXCEPT !.qj = None, !.vj = cdb_value]
             ELSE station
    IN IF a.qk = cdb_name
       THEN [a EXCEPT !.qk = None, !.vk = cdb_value]
       ELSE a

\* update_from_cdb that delivers nothing: no station sees the bus.
update_from_cdb_delivers_nothing(sts, cdb_name, cdb_value) == sts

update_from_cdb(sts, cdb_name, cdb_value) ==
    [i \in 1..Len(sts) |-> update_station_from_cdb(sts[i], cdb_name, cdb_value)]

(***************************************************************************)
(* components/functional_unit.py                                           *)
(***************************************************************************)
FunctionalUnit(name, supported_ops) ==
    [name |-> name, supported_ops |-> supported_ops, busy |-> FALSE,
     reservation_station |-> None, cycles_left |-> 0]

alus == [i \in 1..NUM_ALU_UNITS |-> FunctionalUnit("ALU" \o ToString(i), {"ADD", "SUB"})]

mul_divs == [i \in 1..NUM_MUL_DIV_UNITS |-> FunctionalUnit("MULDIV" \o ToString(i), {"MUL", "DIV"})]

load_stores == [i \in 1..NUM_LOAD_STORE_UNITS |-> FunctionalUnit("LOADSTORE" \o ToString(i), {"LOAD", "STORE"})]

all_units == alus \o mul_divs \o load_stores

NumUnits == Len(all_units)

\* can_accept without the test of busy.
can_accept_busy_unit(unit, op) == op \in unit.supported_ops

can_accept(unit, op) == op \in unit.supported_ops /\ ~unit.busy

\* get_available that looks at the first unit of the class only.
get_available_first_unit_only(us, op) ==
    IF \E u \in 1..Len(us) : op \in us[u].supported_ops
    THEN LET f == Min({u \in 1..Len(us) : op \in us[u].supported_ops})
         IN IF us[f].busy THEN 0 ELSE f
    ELSE 0

\* Index in all_units of the first unit that accepts op, 0 for None.
get_available(us, op) ==
    IF \E u \in 1..Len(us) : can_accept(us[u], op)
    THEN Min({u \in 1..Len(us) : can_accept(us[u], op)})
    ELSE 0

\* Python's floor division vj // vk, vk # 0.
FloorDiv(a, b) == IF b > 0 THEN a \div b ELSE (0 - a) \div (0 - b)

\* compute_result returned value and left the memory as mem.
Returned(value, mem) == [value |-> value, mem |-> mem, raised |-> FALSE]

\* compute_result raised: ValueError for an operation the unit does not
\* support, TypeError for an operand, an address or an offset that is None.
Raised(mem) == [value |-> Nil, mem |-> mem, raised |-> TRUE]

\* compute_result whose DIV divides without testing the divisor: vk = 0
\* raises ZeroDivisionError.
compute_result_div_unchecked(unit, rs, mem) ==
    IF unit.supported_ops = {"ADD", "SUB"} THEN
        IF rs.op \in {"ADD", "SUB"} /\ (rs.vj = Nil \/ rs.vk = Nil) THEN Raised(mem)
        ELSE IF rs.op = "ADD" THEN Returned(Some(Val(rs.vj) + Val(rs.vk)), mem)
        ELSE IF rs.op = "SUB" THEN Returned(Some(Val(rs.vj) - Val(rs.vk)), mem)
        ELSE Raised(mem)
    ELSE IF unit.supported_ops = {"MUL", "DIV"} THEN
        IF rs.op \in {"MUL", "DIV"} /\ (rs.vj = Nil \/ rs.vk = Nil) THEN Raised(mem)
        ELSE IF rs.op = "MUL" THEN Returned(Some(Val(rs.vj) * Val(rs.vk)), mem)
        ELSE IF rs.op = "DIV" /\ Val(rs.vk) # 0
             THEN Returned(Some(FloorDiv(Val(rs.vj), Val(rs.vk))), mem)
        ELSE Raised(mem)
    ELSE
        IF rs.op \in {"LOAD", "STORE"} /\ rs.address = Nil THEN Raised(mem)
        ELSE IF rs.op = "LOAD"
             THEN Returned(optional(MemRead(mem, Val(rs.address))), mem)
        ELSE IF rs.op = "STORE"
             THEN Returned(Nil, MemWrite(mem, Val(rs.address), content(rs.vk)))
        ELSE Raised(mem)

\* compute_result of ALU, MulDiv and LoadStore, selected by the unit's
\* supported_ops: the result (Nil for None), the memory after it, and
\* whether an exception was raised.  An arithmetic operator raises
\* TypeError on an operand that is None; DIV tests vk == 0 first, which is
\* false for None and returns 0 for 0 whatever vj is; Memory.read and
\* Memory.write raise TypeError on an address that is None.
compute_result(unit, rs, mem) ==
    IF unit.supported_ops = {"ADD", "SUB"} THEN
        IF rs.op \in {"ADD", "SUB"} /\ (rs.vj = Nil \/ rs.vk = Nil) THEN Raised(mem)
        ELSE IF rs.op = "ADD" THEN Returned(Some(Val(rs.vj) + Val(rs.vk)), mem)
        ELSE IF rs.op = "SUB" THEN Returned(Some(Val(rs.vj) - Val(rs.vk)), mem)
        ELSE Raised(mem)
    ELSE IF unit.supported_ops = {"MUL", "DIV"} THEN
        IF rs.op = "MUL" THEN
            IF rs.vj = Nil \/ rs.vk = Nil THEN Raised(mem)
            ELSE Returned(Some(Val(rs.vj) * Val(rs.vk)), mem)
        ELSE IF rs.op = "DIV" THEN
            IF rs.vk = Nil THEN Raised(mem)
            ELSE IF Val(rs.vk) = 0 THEN Returned(Some(0), mem)
            ELSE IF rs.vj = Nil THEN Raised(mem)
            ELSE Returned(Some(FloorDiv(Val(rs.vj), Val(rs.vk))), mem)
        ELSE Raised(mem)
    ELSE
        IF rs.op \in {"LOAD", "STORE"} /\ rs.address = Nil THEN Raised(mem)
        ELSE IF rs.op = "LOAD"
             THEN Returned(optional(MemRead(mem, Val(rs.address))), mem)
        ELSE IF rs.op = "STORE"
             THEN Returned(Nil, MemWrite(mem, Val(rs.address), content(rs.vk)))
        ELSE Raised(mem)

\* start_execution that counts the cycle of the start as the first cycle of
\* the execution.
start_execution_one_cycle_short(unit, reservation_station) ==
    [unit EXCEPT !.busy = TRUE,
                 !.reservation_station = reservation_station.name,
                 !.cycles_left = LATENCIES[reservation_station.op] - 1]

start_execution(unit, reservation_station) ==
    [unit EXCEPT !.busy = TRUE,
                 !.reservation_station = reservation_station.name,
                 !.cycles_left = LATENCIES[reservation_station.op]]

\* The station is marked executing without the mirror of cycles_left.
start_execution_rs_without_mirror(reservation_station) ==
    [reservation_station EXCEPT !.executing = TRUE]

start_execution_rs(reservation_station) ==
    [reservation_station EXCEPT
        !.executing = TRUE,
        !.execution_cycles_left = LATENCIES[reservation_station.op]]

\* FunctionalUnit.tick that leaves the station of a completion marked as
\* executing.
unit_tick_keeps_executing(a, u) ==
    LET unit == a.units[u]
        k == get_station_by_name(a.stations, unit.reservation_station)
        left == unit.cycles_left - 1
        rs == [a.stations[k] EXCEPT !.execution_cycles_left = @ - 1]
        r == compute_result(unit, rs, a.memory)
    IN IF ~unit.busy THEN a
       ELSE IF left > 0 THEN
            [a EXCEPT !.units[u].cycles_left = left, !.stations[k] = rs]
       ELSE IF r.raised THEN
            [a EXCEPT !.units[u].cycles_left = left, !.stations[k] = rs,
                      !.raised = TRUE]
       ELSE [a EXCEPT !.units[u] = [unit EXCEPT !.cycles_left = left,
                                                !.busy = FALSE,
                                                !.reservation_station = None],
                      !.stations[k] = rs,
                      !.memory = r.mem,
                      !.results = Append(@, <<rs.name, r.value>>)]

\* FunctionalUnit.tick of unit u on the accumulated state a of
\* FunctionalUnits.tick: a.results gets <<rs_name, result>> on completion.
unit_tick(a, u) ==
    LET unit == a.units[u]
        k == get_station_by_name(a.stations, unit.reservation_station)
        left == unit.cycles_left - 1
        rs == [a.stations[k] EXCEPT !.execution_cycles_left = @ - 1]
        r == compute_result(unit, rs, a.memory)
    IN IF ~unit.busy THEN a
       ELSE IF left > 0 THEN
            [a EXCEPT !.units[u].cycles_left = left, !.stations[k] = rs]
       ELSE IF r.raised THEN
            [a EXCEPT !.units[u].cycles_left = left, !.stations[k] = rs,
                      !.raised = TRUE]
       ELSE [a EXCEPT !.units[u] = [unit EXCEPT !.cycles_left = left,
                                                !.busy = FALSE,
                                                !.reservation_station = None],
                      !.stations[k] = [rs EXCEPT !.executing = FALSE],
                      !.memory = r.mem,
                      !.results = Append(@, <<rs.name, r.value>>)]

RECURSIVE units_tick_from(_, _)
units_tick_from(a, u) ==
    IF u > Len(a.units) \/ a.raised THEN a
    ELSE units_tick_from(unit_tick(a, u), u + 1)

\* FunctionalUnits.tick
units_tick(us, sts, mem) ==
    units_tick_from([units |-> us, stations |-> sts, memory |-> mem,
                     results |-> <<>>, raised |-> FALSE], 1)

(***************************************************************************)
(* utils/metrics.py                                                        *)
(***************************************************************************)
Metrics ==
    [total_cycles |-> 0, total_instrcutions |-> 0, completed_instructions |-> 0,
     rs_busy_cycles |-> 0, total_rs_cycles |-> 0,
     ls_buffer_busy_cycles |-> 0, total_ls_buffer_cycles |-> 0,
     structural_hazard_stalls |-> 0]

\* update_rs_occupancy that counts the busy LOAD and STORE buffers too.
update_rs_occupancy_counts_buffers(m, sts) ==
    [m EXCEPT !.rs_busy_cycles =
                 @ + Cardinality({i \in 1..Len(sts) : sts[i].busy}),
              !.total_rs_cycles = @ + NUM_ALU_RS + NUM_MUL_DIV_RS]

update_rs_occupancy(m, sts) ==
    [m EXCEPT !.rs_busy_cycles =
                 @ + Cardinality({i \in AluIdx \cup MulDivIdx : sts[i].busy}),
              !.total_rs_cycles = @ + NUM_ALU_RS + NUM_MUL_DIV_RS]

update_ls_buffer_utilization(m, sts) ==
    [m EXCEPT !.ls_buffer_busy_cycles =
                 @ + Cardinality({i \in LoadIdx \cup StoreIdx : sts[i].busy}),
              !.total_ls_buffer_cycles =
                 @ + NUM_LOAD_BUFFER_ENTRIES + NUM_STORE_BUFFER_ENTRIES]

increment_structural_hazard_stalls(m) ==
    [m EXCEPT !.structural_hazard_stalls = @ + 1]

(***************************************************************************)
(* simulator.py.  The operators below take and return the simulator as a   *)
(* record s with one field per variable, plus s.raised for an exception    *)
(* that left tick().                                                       *)
(***************************************************************************)

\* The instruction held by the station that st names for src_reg, Nil when
\* the register is not pending: the producer the new instruction waits for.
producer_of(s, src_reg) ==
    IF get_status(s.status, src_reg) = None THEN Nil
    ELSE s.stations[get_station_by_name(s.stations,
                                        get_status(s.status, src_reg))].instruction

\* Operand capture into (qj, vj) that reads the register file without
\* consulting the status.
capture_j_ignores_status(rs, s, src_reg) ==
    [rs EXCEPT !.qj = None, !.vj = optional(read(s.registers, src_reg))]

\* Operand capture into (qj, vj), simulator.py lines 124-133, 144-154, 165-175.
capture_j(rs, s, src_reg) ==
    IF get_status(s.status, src_reg) # None
    THEN [rs EXCEPT !.qj = get_status(s.status, src_reg)]
    ELSE [rs EXCEPT !.qj = None, !.vj = optional(read(s.registers, src_reg))]

\* Operand capture into (qk, vk) that reads the register file without
\* consulting the status.
capture_k_ignores_status(rs, s, src_reg) ==
    [rs EXCEPT !.qk = None, !.vk = optional(read(s.registers, src_reg))]

\* Operand capture into (qk, vk), simulator.py lines 124-133, 179-189.
capture_k(rs, s, src_reg) ==
    IF get_status(s.status, src_reg) # None
    THEN [rs EXCEPT !.qk = get_status(s.status, src_reg)]
    ELSE [rs EXCEPT !.qk = None, !.vk = optional(read(s.registers, src_reg))]

\* The station k after the instruction was bound to it and its operands
\* were captured.
issue_station(s, k, instruction) ==
    LET rs == [s.stations[k] EXCEPT !.busy = TRUE, !.op = instruction.op,
                                    !.instruction = Some(s.pc + 1)]
    IN IF instruction.op \in {"ADD", "SUB", "MUL", "DIV"} THEN
           capture_k(capture_j([rs EXCEPT !.dest = instruction.dest], s,
                               instruction.src1), s, instruction.src2)
       ELSE IF instruction.op = "LOAD" THEN
           [capture_j([rs EXCEPT !.dest = instruction.dest], s,
                      instruction.base) EXCEPT !.offset = instruction.offset]
       ELSE IF instruction.op = "STORE" THEN
           [capture_k(capture_j(rs, s, instruction.base), s, instruction.src1)
               EXCEPT !.offset = instruction.offset]
       ELSE rs

\* Renaming that also marks the register a STORE reads its value from.
issue_rename_marks_store_source(s, k, instruction) ==
    IF instruction.op \in {"ADD", "SUB", "MUL", "DIV", "LOAD"}
    THEN set_status(s.status, instruction.dest, s.stations[k].name)
    ELSE set_status(s.status, instruction.src1, s.stations[k].name)

\* The status vector after the destination was renamed.
issue_rename(s, k, instruction) ==
    IF instruction.op \in {"ADD", "SUB", "MUL", "DIV", "LOAD"}
    THEN set_status(s.status, instruction.dest, s.stations[k].name)
    ELSE s.status

\* The producers recorded for the instruction issued now.
issue_producers(s, instruction) ==
    IF instruction.op \in {"ADD", "SUB", "MUL", "DIV"} THEN
        [j |-> producer_of(s, instruction.src1),
         k |-> producer_of(s, instruction.src2)]
    ELSE IF instruction.op = "LOAD" THEN
        [j |-> producer_of(s, instruction.base), k |-> Nil]
    ELSE IF instruction.op = "STORE" THEN
        [j |-> producer_of(s, instruction.base),
         k |-> producer_of(s, instruction.src1)]
    ELSE [j |-> Nil, k |-> Nil]

\* issue that advances pc when no station is free: the instruction is dropped.
issue_stall_consumes_pc(s) ==
    IF s.pc >= Len(s.instructions) THEN [s EXCEPT !.issued = FALSE]
    ELSE LET instruction == s.instructions[s.pc + 1]
             k == get_available_station(s.stations, instruction.op)
         IN IF k = 0 THEN
                [s EXCEPT !.metrics = increment_structural_hazard_stalls(@),
                          !.pc = @ + 1,
                          !.issued = FALSE]
            ELSE
                [s EXCEPT !.stations[k] = issue_station(s, k, instruction),
                          !.instructions[s.pc + 1].issue_cycle = Some(s.cycle),
                          !.status = issue_rename(s, k, instruction),
                          !.producers[s.pc + 1] = issue_producers(s, instruction),
                          !.pc = @ + 1,
                          !.issued = TRUE]

\* The register names issue hands to the register file for this
\* instruction, in the order of the calls.
issue_registers(instruction) ==
    IF instruction.op \in {"ADD", "SUB", "MUL", "DIV"}
    THEN <<instruction.src1, instruction.src2, instruction.dest>>
    ELSE IF instruction.op = "LOAD" THEN <<instruction.base, instruction.dest>>
    ELSE IF instruction.op = "STORE" THEN <<instruction.base, instruction.src1>>
    ELSE <<>>

\* A call of the register file made by issue raises ValueError.
issue_raises(instruction) ==
    \E n \in 1..Len(issue_registers(instruction)) :
        ~valid_register(issue_registers(instruction)[n])

\* The station k as issue leaves it when a call of the register file
\* raises: bound to the instruction, with the operands captured before the
\* call that raised.
issue_station_raised(s, k, instruction) ==
    LET rs == [s.stations[k] EXCEPT !.busy = TRUE, !.op = instruction.op,
                                    !.instruction = Some(s.pc + 1)]
        rd == [rs EXCEPT !.dest = instruction.dest]
    IN IF instruction.op \in {"ADD", "SUB", "MUL", "DIV"} THEN
           IF ~valid_register(instruction.src1) THEN rd
           ELSE IF ~valid_register(instruction.src2)
                THEN capture_j(rd, s, instruction.src1)
                ELSE capture_k(capture_j(rd, s, instruction.src1), s, instruction.src2)
       ELSE IF instruction.op = "LOAD" THEN
           IF ~valid_register(instruction.base) THEN rd
           ELSE [capture_j(rd, s, instruction.base) EXCEPT !.offset = instruction.offset]
       ELSE
           IF ~valid_register(instruction.base) THEN rs
           ELSE capture_j(rs, s, instruction.base)

\* issue that renames the destination before it captures the sources.
issue_renames_before_capture(s) ==
    IF s.pc >= Len(s.instructions) THEN [s EXCEPT !.issued = FALSE]
    ELSE LET instruction == s.instructions[s.pc + 1]
             k == get_available_station(s.stations, instruction.op)
             renamed == [s EXCEPT !.status = issue_rename(s, k, instruction)]
         IN IF k = 0 THEN
                [s EXCEPT !.metrics = increment_structural_hazard_stalls(@),
                          !.issued = FALSE]
            ELSE IF issue_raises(instruction) THEN
                [s EXCEPT !.stations[k] = issue_station_raised(s, k, instruction),
                          !.instructions[s.pc + 1].issue_cycle = Some(s.cycle),
                          !.raised = TRUE]
            ELSE
                [s EXCEPT !.stations[k] = issue_station(renamed, k, instruction),
                          !.instructions[s.pc + 1].issue_cycle = Some(s.cycle),
                          !.status = renamed.status,
                          !.producers[s.pc + 1] = issue_producers(s, instruction),
                          !.pc = @ + 1,
                          !.issued = TRUE]

issue(s) ==
    IF s.pc >= Len(s.instructions) THEN [s EXCEPT !.issued = FALSE]
    ELSE LET instruction == s.instructions[s.pc + 1]
             k == get_available_station(s.stations, instruction.op)
         IN IF k = 0 THEN
                [s EXCEPT !.metrics = increment_structural_hazard_stalls(@),
                          !.issued = FALSE]
            ELSE IF issue_raises(instruction) THEN
                [s EXCEPT !.stations[k] = issue_station_raised(s, k, instruction),
                          !.instructions[s.pc + 1].issue_cycle = Some(s.cycle),
                          !.raised = TRUE]
            ELSE
                [s EXCEPT !.stations[k] = issue_station(s, k, instruction),
                          !.instructions[s.pc + 1].issue_cycle = Some(s.cycle),
                          !.status = issue_rename(s, k, instruction),
                          !.producers[s.pc + 1] = issue_producers(s, instruction),
                          !.pc = @ + 1,
                          !.issued = TRUE]

\* simulator.py line 224: rs.vj + rs.offset raises TypeError when one of
\* the two is None.
address_raises(rs) == rs.vj = Nil \/ rs.offset = Nil

\* execute that stamps start_cycle with the cycle of issue.
execute_station_stamps_issue_cycle(s, i) ==
    LET rs == s.stations[i]
        u == get_available(s.units, rs.op)
        started == start_execution_rs(rs)
    IN IF isReady(rs) /\ ~rs.executing /\ u # 0 THEN
           [s EXCEPT !.units[u] = start_execution(s.units[u], rs),
                     !.stations[i] =
                        IF rs.op \in {"LOAD", "STORE"} /\ ~address_raises(rs)
                        THEN [started EXCEPT !.address = Some(Val(rs.vj) + Val(rs.offset))]
                        ELSE started,
                     !.instructions[Val(rs.instruction)].start_cycle =
                        s.instructions[Val(rs.instruction)].issue_cycle,
                     !.raised = rs.op \in {"LOAD", "STORE"} /\ address_raises(rs)]
       ELSE s

\* execute that takes the base value as the address, without the offset.
execute_station_address_without_offset(s, i) ==
    LET rs == s.stations[i]
        u == get_available(s.units, rs.op)
        started == start_execution_rs(rs)
    IN IF isReady(rs) /\ ~rs.executing /\ u # 0 THEN
           [s EXCEPT !.units[u] = start_execution(s.units[u], rs),
                     !.stations[i] =
                        IF rs.op \in {"LOAD", "STORE"}
                        THEN [started EXCEPT !.address = rs.vj]
                        ELSE started,
                     !.instructions[Val(rs.instruction)].start_cycle = Some(s.cycle)]
       ELSE s

\* One iteration of the loop of execute, for station i of all_stations.
\* The address of a LOAD or STORE is computed last: when it raises, the
\* unit and the station are started and start_cycle is stamped.
execute_station(s, i) ==
    LET rs == s.stations[i]
        u == get_available(s.units, rs.op)
        started == start_execution_rs(rs)
    IN IF isReady(rs) /\ ~rs.executing /\ u # 0 THEN
           [s EXCEPT !.units[u] = start_execution(s.units[u], rs),
                     !.stations[i] =
                        IF rs.op \in {"LOAD", "STORE"} /\ ~address_raises(rs)
                        THEN [started EXCEPT !.address = Some(Val(rs.vj) + Val(rs.offset))]
                        ELSE started,
                     !.instructions[Val(rs.instruction)].start_cycle = Some(s.cycle),
                     !.raised = rs.op \in {"LOAD", "STORE"} /\ address_raises(rs)]
       ELSE s

RECURSIVE execute_from(_, _)
execute_from(s, i) ==
    IF i > Len(s.stations) \/ s.raised THEN s
    ELSE execute_from(execute_station(s, i), i + 1)

\* The loop of execute run from the last station of all_stations down to
\* the first.
RECURSIVE execute_down_from(_, _)
execute_down_from(s, i) ==
    IF i < 1 \/ s.raised THEN s
    ELSE execute_down_from(execute_station(s, i), i - 1)

\* execute that visits the stations in the reverse order.
execute_in_reverse_order(s) == execute_down_from(s, Len(s.stations))

execute(s) == execute_from(s, 1)

\* simulator.py line 266: the result goes to the destination register.
wb_write_register(regs, dest_reg, result) ==
    write(regs, dest_reg, content(result))

\* The status is cleared without comparing it to the station's tag.
wb_clear_status_always(st, dest_reg, rs_name) ==
    set_status(st, dest_reg, None)

\* The status is never cleared by a write-back.
wb_clear_status_never(st, dest_reg, rs_name) == st

\* The status is cleared by clear_status of the register file.
wb_clear_status_by_clear_status(st, dest_reg, rs_name) == clear_status(st, rs_name)

\* simulator.py lines 269-270.
wb_clear_status(st, dest_reg, rs_name) ==
    IF get_status(st, dest_reg) = rs_name
    THEN set_status(st, dest_reg, None)
    ELSE st

\* simulator.py line 279.
wb_count(m) == [m EXCEPT !.completed_instructions = @ + 1]

\* simulator.py line 266: the write of the register file raises ValueError
\* for a destination that get_register_index does not accept.
wb_raises(rs) ==
    rs.op \in {"ADD", "SUB", "MUL", "DIV", "LOAD"} /\ ~valid_register(rs.dest)

\* simulator.py lines 250-279: the completion <<rs_name, result>> is
\* processed.  When the write of the register raises, the bus and the
\* timestamps are set and the station is left as it was.
wb_process(s, rs_name, result) ==
    LET k == get_station_by_name(s.stations, rs_name)
        rs == s.stations[k]
        s1 == [s EXCEPT !.cdb = cdb_broadcast(@, rs_name, result)]
        s2 == [s1 EXCEPT
                 !.instructions[Val(rs.instruction)].execute_complete_cycle = Some(s.cycle),
                 !.instructions[Val(rs.instruction)].write_result_cycle = Some(s.cycle)]
        s3 == IF rs.op \in {"ADD", "SUB", "MUL", "DIV", "LOAD"}
              THEN [s2 EXCEPT
                      !.registers = wb_write_register(@, rs.dest, result),
                      !.status = wb_clear_status(@, rs.dest, rs_name)]
              ELSE s2
        s4 == [s3 EXCEPT !.stations = update_from_cdb(@, rs_name, result)]
    IN IF k = 0 THEN s1
       ELSE IF wb_raises(rs) THEN [s2 EXCEPT !.raised = TRUE]
       ELSE [s4 EXCEPT !.stations[k] = clear(@),
                       !.metrics = wb_count(@)]

\* write_back that takes the last result of the list, not the first.
write_back_takes_last(s) ==
    LET t == units_tick(s.units, s.stations, s.memory)
        s1 == [s EXCEPT !.cdb = cdb_clear(@), !.units = t.units,
                        !.stations = t.stations, !.memory = t.memory,
                        !.results = t.results, !.raised = t.raised]
    IN IF t.raised \/ t.results = <<>> THEN s1
       ELSE wb_process(s1, t.results[Len(t.results)][1],
                       t.results[Len(t.results)][2])

write_back(s) ==
    LET t == units_tick(s.units, s.stations, s.memory)
        s1 == [s EXCEPT !.cdb = cdb_clear(@), !.units = t.units,
                        !.stations = t.stations, !.memory = t.memory,
                        !.results = t.results, !.raised = t.raised]
    IN IF t.raised \/ t.results = <<>> THEN s1
       ELSE wb_process(s1, t.results[1][1], t.results[1][2])

\* The test of line 319 without its third condition.
tick_done_ignores_stations(s) ==
    /\ ~s.issued
    /\ s.pc >= Len(s.instructions)

\* The test of line 319 with any() in the place of all().
tick_done_any_free(s) ==
    /\ ~s.issued
    /\ s.pc >= Len(s.instructions)
    /\ \E i \in 1..Len(s.stations) : ~s.stations[i].busy

\* simulator.py line 319: the simulation is complete.
tick_done(s) ==
    /\ ~s.issued
    /\ s.pc >= Len(s.instructions)
    /\ \A i \in 1..Len(s.stations) : ~s.stations[i].busy

\* issue() as tick() reaches it: an exception that left execute() left
\* tick() too.
issue_unless_raised(s) == IF s.raised THEN s ELSE issue(s)

\* tick() that starts executions before it writes results back.
tick_executes_before_write_back(s) ==
    LET s1 == [s EXCEPT !.cycle = @ + 1]
        s2 == [s1 EXCEPT !.metrics = [@ EXCEPT !.total_cycles = s1.cycle]]
        s3 == [s2 EXCEPT !.metrics = update_ls_buffer_utilization(
                                         update_rs_occupancy(@, s2.stations),
                                         s2.stations)]
        s4 == execute(s3)
        s5 == IF s4.raised THEN s4 ELSE write_back(s4)
    IN issue_unless_raised(s5)

\* tick() that issues before it starts executions.
tick_issues_before_execute(s) ==
    LET s1 == [s EXCEPT !.cycle = @ + 1]
        s2 == [s1 EXCEPT !.metrics = [@ EXCEPT !.total_cycles = s1.cycle]]
        s3 == [s2 EXCEPT !.metrics = update_ls_buffer_utilization(
                                         update_rs_occupancy(@, s2.stations),
                                         s2.stations)]
        s4 == write_back(s3)
        s5 == issue(s4)
    IN IF s4.raised THEN s4 ELSE [execute(s5) EXCEPT !.issued = s5.issued]

\* tick() that calls issue() a second time after the first.
tick_issues_twice(s) ==
    LET s1 == [s EXCEPT !.cycle = @ + 1]
        s2 == [s1 EXCEPT !.metrics = [@ EXCEPT !.total_cycles = s1.cycle]]
        s3 == [s2 EXCEPT !.metrics = update_ls_buffer_utilization(
                                         update_rs_occupancy(@, s2.stations),
                                         s2.stations)]
        s4 == write_back(s3)
    IN IF s4.raised THEN s4 ELSE issue(issue(execute(s4)))

\* tick() up to its call of issue(): the simulator on which issue() runs,
\* after the write-back and the start of the executions of the cycle.
\* s.raised tells that an exception left write_back or execute, and with
\* it tick(); execute is not called after an exception of write_back.
before_issue(s) ==
    LET s1 == [s EXCEPT !.cycle = @ + 1]
        s2 == [s1 EXCEPT !.metrics = [@ EXCEPT !.total_cycles = s1.cycle]]
        s3 == [s2 EXCEPT !.metrics = update_ls_buffer_utilization(
                                         update_rs_occupancy(@, s2.stations),
                                         s2.stations)]
        s4 == write_back(s3)
    IN IF s4.raised THEN s4 ELSE execute(s4)

\* tick() up to its return statement; the value returned is ~tick_done.
\* s.raised tells that an exception left write_back, execute or issue, and
\* with it tick().
tick(s) == issue_unless_raised(before_issue(s))

(***************************************************************************)
(* The explored inputs: the traces of at most MaxLen instructions, as      *)
(* Instruction.parse builds them, over the registers R1 and R2 and the     *)
(* offset 0, with one opcode of each arithmetic pool (ADD for the ALU      *)
(* stations, MUL for the MUL/DIV stations), LOAD and STORE.  The second    *)
(* source of an arithmetic instruction is R2.                              *)
(***************************************************************************)
TraceRegs == {"R1", "R2"}

Offsets == {0}

ArithOps == {"ADD", "MUL"}

ArithInstrs ==
    {Instruction(op, d, a, "R2", Nil, None) :
        op \in ArithOps, d \in TraceRegs, a \in TraceRegs}

LoadInstrs ==
    {Instruction("LOAD", d, None, None, Some(o), b) :
        d \in TraceRegs, o \in Offsets, b \in TraceRegs}

StoreInstrs ==
    {Instruction("STORE", None, a, None, Some(o), b) :
        a \in TraceRegs, o \in Offsets, b \in TraceRegs}

Instrs == ArithInstrs \cup LoadInstrs \cup StoreInstrs

Traces == UNION {[1..n -> Instrs] : n \in 0..MaxLen}

\* One draw of RegisterFile.__init__: R0 = 0, R1..R7 in 1..100.  R1 and R2
\* are small: Python integers are unbounded, TLC's are 32 bits wide, and a
\* chain of MaxLen + 1 MUL instructions squares its operand that many times.
InitRegisters == [i \in 0..(NUM_REGISTERS - 1) |-> <<0, 2, 3, 5, 7, 11, 13, 17>>[i + 1]]

(***************************************************************************)
(* The state machine.                                                      *)
(***************************************************************************)
Sim ==
    [registers |-> registers, status |-> status, stations |-> stations,
     units |-> units, cdb |-> cdb, memory |-> memory,
     instructions |-> instructions, pc |-> pc, cycle |-> cycle,
     metrics |-> metrics, issued |-> issued, producers |-> producers,
     results |-> results, raised |-> FALSE]

\* Simulator.__init__
Init ==
    /\ registers = InitRegisters
    /\ status = [i \in 0..(NUM_REGISTERS - 1) |-> None]
    /\ stations = all_stations
    /\ units = all_units
    /\ cdb = CdbCleared
    /\ memory = <<>>
    /\ instructions = <<>>
    /\ pc = 0
    /\ cycle = 0
    /\ metrics = Metrics
    /\ issued = FALSE
    /\ phase = "new"
    /\ producers = <<>>
    /\ results = <<>>

\* Simulator.load_trace, called once on the new simulator.
LoadTrace ==
    /\ phase = "new"
    /\ \E trace \in Traces :
          /\ instructions' = trace
          /\ metrics' = [metrics EXCEPT !.total_instrcutions = Len(trace)]
          /\ producers' = [i \in 1..Len(trace) |-> [j |-> Nil, k |-> Nil]]
    /\ pc' = 0
    /\ cycle' = 0
    /\ phase' = "running"
    /\ UNCHANGED <<registers, status, stations, units, cdb, memory, issued,
                   results>>

\* One call of Simulator.tick() on the simulator as it is.  The caller
\* learns how the call ended: it returned True (running), it returned False
\* (done), or an exception left it (crashed).
CallTick ==
    \E t \in {tick(Sim)} :
       /\ registers' = t.registers
       /\ status' = t.status
       /\ stations' = t.stations
       /\ units' = t.units
       /\ cdb' = t.cdb
       /\ memory' = t.memory
       /\ instructions' = t.instructions
       /\ pc' = t.pc
       /\ cycle' = t.cycle
       /\ metrics' = t.metrics
       /\ issued' = t.issued
       /\ producers' = t.producers
       /\ results' = t.results
       /\ phase' = IF t.raised THEN "crashed"
                   ELSE IF tick_done(t) THEN "done" ELSE "running"

\* One call of Simulator.tick() from the loop of run(): run() calls tick()
\* until it returns False or an exception leaves it.
Tick == phase = "running" /\ CallTick

\* One call of Simulator.run_step(), simulator.py lines 344-386: tick() on
\* the simulator as the last call left it, whether no trace was loaded yet
\* (the call counts cycle 1 and the run is done), the run goes on, has
\* ended or was left by an exception (main.py stops calling at the end of
\* the run, /step_simulate of web_api.py calls it on every request).  The
\* dictionary it returns is built from copies and changes nothing.  The
\* exploration stops at cycle MaxCycle.
RunStep == cycle < MaxCycle /\ CallTick

Next == LoadTrace \/ Tick

Spec == Init /\ [][Next]_vars

(***************************************************************************)
(* The end-to-end scenarios: the register file holds R0 = 0, R1 = 5,       *)
(* R2 = 7, R3 = 3 (one draw of RegisterFile.__init__), the host has        *)
(* written 42 to memory cell 4 with Memory.write, and the trace is one     *)
(* instruction of any opcode, or an ADD or SUB into R4 followed by an ADD  *)
(* or SUB into R5 that reads R4 or R1.                                     *)
(***************************************************************************)
ScenarioRegisters == [i \in 0..(NUM_REGISTERS - 1) |-> <<0, 5, 7, 3, 11, 13, 17, 19>>[i + 1]]

ScenarioMemory == MemWrite(<<>>, 4, 42)

SingleInstrs ==
    {Instruction(op, d, a, b, Nil, None) :
        op \in {"ADD", "SUB", "MUL", "DIV"}, d \in {"R1", "R4"},
        a \in {"R1", "R2"}, b \in {"R2", "R0"}}
    \cup {Instruction("LOAD", d, None, None, Some(o), b) :
             d \in {"R1", "R4"}, o \in {0, 4}, b \in {"R0", "R1"}}
    \cup {Instruction("STORE", None, a, None, Some(o), b) :
             a \in {"R1", "R2"}, o \in {0, 4}, b \in {"R0", "R1"}}

PairTraces ==
    {<<Instruction(op1, "R4", "R1", "R2", Nil, None),
       Instruction(op2, "R5", a, "R3", Nil, None)>> :
        op1 \in {"ADD", "SUB"}, op2 \in {"ADD", "SUB"}, a \in {"R4", "R1"}}

ScenarioTraces == {<<ins>> : ins \in SingleInstrs} \cup PairTraces

InitScenario ==
    /\ registers = ScenarioRegisters
    /\ status = [i \in 0..(NUM_REGISTERS - 1) |-> None]
    /\ stations = all_stations
    /\ units = all_units
    /\ cdb = CdbCleared
    /\ memory = ScenarioMemory
    /\ instructions = <<>>
    /\ pc = 0
    /\ cycle = 0
    /\ metrics = Metrics
    /\ issued = FALSE
    /\ phase = "new"
    /\ producers = <<>>
    /\ results = <<>>

\* Simulator.load_trace with a trace of the scenarios.
LoadScenario ==
    /\ phase = "new"
    /\ \E trace \in ScenarioTraces :
          /\ instructions' = trace
          /\ metrics' = [metrics EXCEPT !.total_instrcutions = Len(trace)]
          /\ producers' = [i \in 1..Len(trace) |-> [j |-> Nil, k |-> Nil]]
    /\ pc' = 0
    /\ cycle' = 0
    /\ phase' = "running"
    /\ UNCHANGED <<registers, status, stations, units, cdb, memory, issued,
                   results>>

NextScenario == LoadScenario \/ Tick

SpecScenario == InitScenario /\ [][NextScenario]_vars

(***************************************************************************)
(* Sixteen ADD instructions with no read-after-write dependency: the       *)
(* sources are among R0, R1, R2, the same for the sixteen, and the         *)
(* destinations are among R3..R7: one register, two in turn, or five in    *)
(* turn.                                                                   *)
(***************************************************************************)
SixteenDests ==
    {[i \in 1..16 |-> "R3"],
     [i \in 1..16 |-> RegName(3 + (i % 2))],
     [i \in 1..16 |-> RegName(3 + (i % 5))]}

SixteenAddTraces ==
    {[i \in 1..16 |-> Instruction("ADD", d[i], a, b, Nil, None)] :
        d \in SixteenDests, a \in {"R0", "R1", "R2"}, b \in {"R0", "R1", "R2"}}

\* Simulator.load_trace with a trace of sixteen independent ADDs.
LoadSixteen ==
    /\ phase = "new"
    /\ \E trace \in SixteenAddTraces :
          /\ instructions' = trace
          /\ metrics' = [metrics EXCEPT !.total_instrcutions = Len(trace)]
          /\ producers' = [i \in 1..Len(trace) |-> [j |-> Nil, k |-> Nil]]
    /\ pc' = 0
    /\ cycle' = 0
    /\ phase' = "running"
    /\ UNCHANGED <<registers, status, stations, units, cdb, memory, issued,
                   results>>

NextSixteen == LoadSixteen \/ Tick

SpecSixteen == InitScenario /\ [][NextSixteen]_vars

(***************************************************************************)
(* A STORE of R1 followed by a LOAD, both through R0 = 0, on the memory    *)
(* that Memory.__init__ leaves (every cell 0): R1 is one of several draws  *)
(* of RegisterFile.__init__, the offsets are 0 or 4 and the LOAD writes R3 *)
(* or R4.                                                                  *)
(***************************************************************************)
StoredValues == {1, 2, 5, 42, 100}

StoreLoadTraces ==
    {<<Instruction("STORE", None, "R1", None, Some(so), "R0"),
       Instruction("LOAD", d, None, None, Some(lo), "R0")>> :
        so \in {0, 4}, lo \in {0, 4}, d \in {"R3", "R4"}}

InitStoreLoad ==
    /\ \E v \in StoredValues : registers = [ScenarioRegisters EXCEPT ![1] = v]
    /\ status = [i \in 0..(NUM_REGISTERS - 1) |-> None]
    /\ stations = all_stations
    /\ units = all_units
    /\ cdb = CdbCleared
    /\ memory = <<>>
    /\ instructions = <<>>
    /\ pc = 0
    /\ cycle = 0
    /\ metrics = Metrics
    /\ issued = FALSE
    /\ phase = "new"
    /\ producers = <<>>
    /\ results = <<>>

\* Simulator.load_trace with a STORE followed by a LOAD.
LoadStoreLoad ==
    /\ phase = "new"
    /\ \E trace \in StoreLoadTraces :
          /\ instructions' = trace
          /\ metrics' = [metrics EXCEPT !.total_instrcutions = Len(trace)]
          /\ producers' = [i \in 1..Len(trace) |-> [j |-> Nil, k |-> Nil]]
    /\ pc' = 0
    /\ cycle' = 0
    /\ phase' = "running"
    /\ UNCHANGED <<registers, status, stations, units, cdb, memory, issued,
                   results>>

NextStoreLoad == LoadStoreLoad \/ Tick

SpecStoreLoad == InitStoreLoad /\ [][NextStoreLoad]_vars

(***************************************************************************)
(* A DIV whose divisor is R0 = 0 or R3 = 3, alone or followed by an ADD or *)
(* SUB into R5 that reads R1 or R4, one of which the DIV writes.           *)
(***************************************************************************)
DivInstrs ==
    {Instruction("DIV", d, a, b, Nil, None) :
        d \in {"R1", "R4"}, a \in {"R1", "R2"}, b \in {"R0", "R3"}}

DivTraces ==
    {<<dv>> : dv \in DivInstrs}
    \cup {<<dv, Instruction(op, "R5", x, "R3", Nil, None)>> :
             dv \in DivInstrs, op \in {"ADD", "SUB"}, x \in {"R1", "R4"}}

\* Simulator.load_trace with a trace that starts with a DIV.
LoadDiv ==
    /\ phase = "new"
    /\ \E trace \in DivTraces :
          /\ instructions' = trace
          /\ metrics' = [metrics EXCEPT !.total_instrcutions = Len(trace)]
          /\ producers' = [i \in 1..Len(trace) |-> [j |-> Nil, k |-> Nil]]
    /\ pc' = 0
    /\ cycle' = 0
    /\ phase' = "running"
    /\ UNCHANGED <<registers, status, stations, units, cdb, memory, issued,
                   results>>

NextDiv == LoadDiv \/ Tick

SpecDiv == InitScenario /\ [][NextDiv]_vars

(***************************************************************************)
(* Memory instructions at the edges of the memory: R0 = 0 or R1 = 5 as     *)
(* base, offsets on both sides of 0 and of MEMORY_SIZE; a LOAD into R4 or  *)
(* a STORE of R2 = 7 alone, or the STORE followed by the LOAD.  Cell 4     *)
(* holds 42.                                                               *)
(***************************************************************************)
EdgeOffsets ==
    {0 - 6, 0 - 1, 0, MEMORY_SIZE - 6, MEMORY_SIZE - 5, MEMORY_SIZE - 1, MEMORY_SIZE}

EdgeLoads ==
    {Instruction("LOAD", "R4", None, None, Some(o), b) :
        o \in EdgeOffsets, b \in {"R0", "R1"}}

EdgeStores ==
    {Instruction("STORE", None, "R2", None, Some(o), b) :
        o \in EdgeOffsets, b \in {"R0", "R1"}}

EdgeTraces ==
    {<<m>> : m \in EdgeLoads \cup EdgeStores}
    \cup {<<st, ld>> : st \in EdgeStores, ld \in EdgeLoads}

\* Simulator.load_trace with a trace of memory instructions at the edges.
LoadEdge ==
    /\ phase = "new"
    /\ \E trace \in EdgeTraces :
          /\ instructions' = trace
          /\ metrics' = [metrics EXCEPT !.total_instrcutions = Len(trace)]
          /\ producers' = [i \in 1..Len(trace) |-> [j |-> Nil, k |-> Nil]]
    /\ pc' = 0
    /\ cycle' = 0
    /\ phase' = "running"
    /\ UNCHANGED <<registers, status, stations, units, cdb, memory, issued,
                   results>>

NextEdge == LoadEdge \/ Tick

SpecEdge == InitScenario /\ [][NextEdge]_vars

(***************************************************************************)
(* Traces that Instruction.parse accepts and that name a register the      *)
(* register file does not have: one or two instructions over R1, R07 (a    *)
(* spelling of register 7 that int() accepts) and R9.                      *)
(***************************************************************************)
ParsedRegs == {"R1", "R07", "R9"}

ParsedInstrs ==
    {Instruction("ADD", d, a, b, Nil, None) :
        d \in ParsedRegs, a \in ParsedRegs, b \in ParsedRegs}
    \cup {Instruction("LOAD", d, None, None, Some(0), b) :
             d \in ParsedRegs, b \in ParsedRegs}
    \cup {Instruction("STORE", None, a, None, Some(0), b) :
             a \in ParsedRegs, b \in ParsedRegs}

ParsedTraces == UNION {[1..n -> ParsedInstrs] : n \in 1..2}

\* Simulator.load_trace with a trace over R1, R07 and R9.
LoadParsed ==
    /\ phase = "new"
    /\ \E trace \in ParsedTraces :
          /\ instructions' = trace
          /\ metrics' = [metrics EXCEPT !.total_instrcutions = Len(trace)]
          /\ producers' = [i \in 1..Len(trace) |-> [j |-> Nil, k |-> Nil]]
    /\ pc' = 0
    /\ cycle' = 0
    /\ phase' = "running"
    /\ UNCHANGED <<registers, status, stations, units, cdb, memory, issued,
                   results>>

NextParsed == LoadParsed \/ Tick

SpecParsed == InitScenario /\ [][NextParsed]_vars

\* The traces stepped by run_step(): the traces above and the traces of the
\* scenarios, which end without an exception.  The calls go on after the end
\* of the run and after an exception.
StepTraces == ParsedTraces \cup ScenarioTraces

\* Simulator.load_trace on the new simulator, with a trace that is then
\* stepped.
LoadStep ==
    /\ phase = "new"
    /\ \E trace \in StepTraces :
          /\ instructions' = trace
          /\ metrics' = [metrics EXCEPT !.total_instrcutions = Len(trace)]
          /\ producers' = [i \in 1..Len(trace) |-> [j |-> Nil, k |-> Nil]]
    /\ pc' = 0
    /\ cycle' = 0
    /\ phase' = "running"
    /\ UNCHANGED <<registers, status, stations, units, cdb, memory, issued,
                   results>>

NextStep == LoadStep \/ RunStep

SpecStep == InitScenario /\ [][NextStep]_vars

(***************************************************************************)
(* Traces of at most MaxLen instructions over the six opcodes: arithmetic  *)
(* instructions read R1 and R2 and write R2 or R3, a LOAD writes R1 or R3  *)
(* and a STORE stores R1 or R2, both at 4(R1).  Two instructions into R3   *)
(* that wait for the same producer complete in the same cycle.             *)
(***************************************************************************)
SixOpInstrs ==
    {Instruction(op, d, "R1", "R2", Nil, None) :
        op \in {"ADD", "SUB", "MUL", "DIV"}, d \in {"R2", "R3"}}
    \cup {Instruction("LOAD", d, None, None, Some(4), "R1") : d \in {"R1", "R3"}}
    \cup {Instruction("STORE", None, a, None, Some(4), "R1") : a \in {"R1", "R2"}}

SixOpTraces == UNION {[1..n -> SixOpInstrs] : n \in 0..MaxLen}

\* Simulator.load_trace with a trace over the six opcodes.
LoadSixOp ==
    /\ phase = "new"
    /\ \E trace \in SixOpTraces :
          /\ instructions' = trace
          /\ metrics' = [metrics EXCEPT !.total_instrcutions = Len(trace)]
          /\ producers' = [i \in 1..Len(trace) |-> [j |-> Nil, k |-> Nil]]
    /\ pc' = 0
    /\ cycle' = 0
    /\ phase' = "running"
    /\ UNCHANGED <<registers, status, stations, units, cdb, memory, issued,
                   results>>

NextSixOp == LoadSixOp \/ Tick

SpecSixOp == InitScenario /\ [][NextSixOp]_vars

(***************************************************************************)
(* The traces over the six opcodes, and the traces of four instructions in *)
(* which a LOAD into R1 or a MUL into R2 is followed by three ADD or SUB   *)
(* into R3: the three wait for the first and are ready in the same tick,   *)
(* for two ALU units.                                                      *)
(***************************************************************************)
TieProducers ==
    {Instruction("LOAD", "R1", None, None, Some(4), "R1"),
     Instruction("MUL", "R2", "R1", "R2", Nil, None)}

TieConsumers ==
    {Instruction(op, "R3", "R1", "R2", Nil, None) : op \in {"ADD", "SUB"}}

TieTraces ==
    SixOpTraces
    \cup {<<pr, a, b, c>> : pr \in TieProducers,
                            a \in TieConsumers, b \in TieConsumers, c \in TieConsumers}

\* Simulator.load_trace with one of these traces.
LoadTie ==
    /\ phase = "new"
    /\ \E trace \in TieTraces :
          /\ instructions' = trace
          /\ metrics' = [metrics EXCEPT !.total_instrcutions = Len(trace)]
          /\ producers' = [i \in 1..Len(trace) |-> [j |-> Nil, k |-> Nil]]
    /\ pc' = 0
    /\ cycle' = 0
    /\ phase' = "running"
    /\ UNCHANGED <<registers, status, stations, units, cdb, memory, issued,
                   results>>

NextTie == LoadTie \/ Tick

SpecTie == InitScenario /\ [][NextTie]_vars

(***************************************************************************)
(* run() on the traces over the six opcodes: the loop `while self.tick()`  *)
(* calls tick() again as long as the last call returned True.  Every call *)
(* of tick() advances cycle by one and no other step changes cycle, so the *)
(* loop is the weak fairness of the step that advances cycle while the run *)
(* has not ended.  The exploration of a run stops at cycle MaxCycle.       *)
(***************************************************************************)
TickOfRun == cycle < MaxCycle /\ Tick

NextRun == LoadSixOp \/ TickOfRun

run_loop == phase = "running" /\ cycle < MaxCycle /\ cycle' = cycle + 1

FairSpecSixOp == InitScenario /\ [][NextRun]_vars /\ WF_cycle(run_loop)

(***************************************************************************)
(* Traces of at most MaxLen arithmetic instructions with pairwise distinct *)
(* destinations among R1..R3, reading R1 and R2 or R3: later instructions  *)
(* read and overwrite the registers of earlier ones, and two instructions  *)
(* that wait for one producer complete in the same cycle.                  *)
(***************************************************************************)
NoWawInstrs ==
    {Instruction(op, d, "R1", b, Nil, None) :
        op \in {"ADD", "SUB", "MUL", "DIV"}, d \in {"R1", "R2", "R3"},
        b \in {"R2", "R3"}}

NoWawTraces ==
    {trace \in UNION {[1..n -> NoWawInstrs] : n \in 0..MaxLen} :
        \A i, j \in 1..Len(trace) : i # j => trace[i].dest # trace[j].dest}

\* Simulator.load_trace with an arithmetic trace without WAW.
LoadArith ==
    /\ phase = "new"
    /\ \E trace \in NoWawTraces :
          /\ instructions' = trace
          /\ metrics' = [metrics EXCEPT !.total_instrcutions = Len(trace)]
          /\ producers' = [i \in 1..Len(trace) |-> [j |-> Nil, k |-> Nil]]
    /\ pc' = 0
    /\ cycle' = 0
    /\ phase' = "running"
    /\ UNCHANGED <<registers, status, stations, units, cdb, memory, issued,
                   results>>

NextArith == LoadArith \/ Tick

SpecArith == InitScenario /\ [][NextArith]_vars

(***************************************************************************)
(* Properties.                                                             *)
(***************************************************************************)
RegIdx == 0..(NUM_REGISTERS - 1)

StationIdx == 1..NumStations

InstrIdx == 1..Len(instructions)

Max(S) == CHOOSE x \in S : \A y \in S : y <= x

\* The position in all_stations of the station with this tag.
StationOf(tag) == CHOOSE i \in StationIdx : stations[i].name = tag

\* The stations whose completion was processed by the write-back of the
\* step: the tag on the CDB after the step.
Processed(i) == cdb'.busy /\ cdb'.reservation_station = stations[i].name

\* The busy stations whose destination is register r.
BusyWithDest(r) ==
    {i \in StationIdx : stations[i].busy /\ names_register(stations[i].dest, r)}

\* The issued instructions whose destination is register r.
IssuedWriters(r) == {n \in 1..pc : names_register(instructions[n].dest, r)}

\* The instructions whose station tag instruction c captured at issue.
ProducersOf(c) ==
    {Val(x) : x \in {producers[c].j, producers[c].k} \ {Nil}}

\* C1: when station S writes back with destination r while the status of r
\* does not name S (r was renamed by a later issue), the value of r is left
\* unchanged by that write-back.
C1_SupersededWriteBackKeepsRegister ==
    [][\A i \in StationIdx :
          (/\ Processed(i)
           /\ stations[i].op # "STORE"
           /\ get_status(status, stations[i].dest) # stations[i].name)
          => read(registers', stations[i].dest) = read(registers, stations[i].dest)]_vars

\* C2: RAW preservation: an instruction c that captured the tag of producer p
\* at issue starts executing only once p has written back, in the cycle of
\* that write-back or later.
C2_RawPreservation ==
    \A c \in InstrIdx : \A p \in ProducersOf(c) :
        instructions[c].start_cycle # Nil
        => /\ instructions[p].write_result_cycle # Nil
           /\ Val(instructions[c].start_cycle) >= Val(instructions[p].write_result_cycle)

\* A consumer that captured a producer's tag has started executing.
C2_Witness ==
    \E c \in InstrIdx :
        /\ ProducersOf(c) # {}
        /\ instructions[c].start_cycle # Nil

\* C3 as stated: the status of r is not None iff exactly one busy station has
\* destination r.
C3_ExactlyOneStation ==
    \A r \in RegIdx : (status[r] # None) <=> (Cardinality(BusyWithDest(r)) = 1)

\* C3 amended: the status of r is not None iff the most recently issued
\* instruction with destination r has not written back yet, and it then names
\* the busy station that holds this instruction; other busy stations may have
\* the same destination.
C3_StatusNamesLatestWriter ==
    \A r \in RegIdx :
        /\ (status[r] # None)
              <=> (/\ IssuedWriters(r) # {}
                   /\ instructions[Max(IssuedWriters(r))].write_result_cycle = Nil)
        /\ (status[r] # None)
              => (/\ StationOf(status[r]) \in BusyWithDest(r)
                  /\ stations[StationOf(status[r])].instruction
                        = Some(Max(IssuedWriters(r))))

\* Two busy stations have the same destination register, whose status names
\* one of them.
C3_Witness ==
    \E r \in RegIdx :
        /\ Cardinality(BusyWithDest(r)) = 2
        /\ status[r] # None

\* C4: no dangling tags: the station named by a pending operand tag of a busy
\* station is busy.
C4_NoDanglingTags ==
    \A i \in StationIdx : \A q \in {stations[i].qj, stations[i].qk} :
        (stations[i].busy /\ q # None)
        => \E k \in StationIdx : stations[k].name = q /\ stations[k].busy

\* A busy station still waits for a tag after some write-back was processed.
C4_Witness ==
    /\ metrics.completed_instructions >= 1
    /\ \E i \in StationIdx :
          stations[i].busy /\ (stations[i].qj # None \/ stations[i].qk # None)

\* C5: an executing station is busy and has no pending operand tag.
C5_ExecutingIsBusyAndReady ==
    \A i \in StationIdx :
        stations[i].executing
        => stations[i].busy /\ stations[i].qj = None /\ stations[i].qk = None

\* A station executes an instruction that had to wait for a producer.
C5_Witness ==
    \E i \in StationIdx :
        /\ stations[i].executing
        /\ ProducersOf(Val(stations[i].instruction)) # {}

\* C6: after every tick the CDB is cleared, or it holds the tag of a station
\* that was executing its last cycle, was released by this tick's write-back
\* and whose instruction carries this cycle as write-back cycle, with the
\* value this write-back put into the destination register (None for STORE).
C6_CdbIsFresh ==
    [][\/ cdb' = CdbCleared
       \/ /\ cdb'.busy
          /\ \E i \in StationIdx :
                /\ stations[i].name = cdb'.reservation_station
                /\ stations[i].executing
                /\ stations[i].execution_cycles_left = 1
                /\ ~stations'[i].executing
                /\ instructions'[Val(stations[i].instruction)].write_result_cycle
                      = Some(cycle')
                /\ IF stations[i].op = "STORE"
                   THEN cdb'.value = Nil
                   ELSE cdb'.value = Some(read(registers', stations[i].dest))]_vars

\* The CDB carries a completion after two earlier write-backs.
C6_Witness ==
    /\ cdb.busy
    /\ metrics.completed_instructions >= 3

\* C7: completed_instructions never exceeds the number of instructions of
\* the loaded trace.
C7_CompletedAtMostTotal ==
    /\ metrics.completed_instructions <= Len(instructions)
    /\ metrics.completed_instructions <= metrics.total_instrcutions

\* Every instruction of a trace of MaxLen instructions was counted.
C7_Witness ==
    /\ Len(instructions) = MaxLen
    /\ metrics.completed_instructions = Len(instructions)

\* C8: when tick() reports done, every instruction of the trace was issued
\* and had its write-back processed, and completed_instructions is their
\* number.
C8_DoneMeansAllCompleted ==
    phase = "done"
    => /\ metrics.completed_instructions = Len(instructions)
       /\ pc = Len(instructions)
       /\ \A n \in InstrIdx :
             /\ instructions[n].issue_cycle # Nil
             /\ instructions[n].write_result_cycle # Nil

\* tick() reported done for a trace of MaxLen instructions.
C8_Witness ==
    /\ phase = "done"
    /\ Len(instructions) = MaxLen

\* C9: after a tick, done is reported exactly when no instruction was issued
\* in the tick, pc is at least the number of instructions and every station
\* is free.
C9_DoneExactlyWhen ==
    (cycle > 0 /\ phase # "crashed")
    => ((phase = "done")
          <=> (/\ ~issued
               /\ pc >= Len(instructions)
               /\ \A i \in StationIdx : ~stations[i].busy))

\* A tick that issued nothing with the trace exhausted returned True because
\* a station was busy.
C9_Witness ==
    /\ phase = "running"
    /\ cycle > 0
    /\ ~issued
    /\ pc >= Len(instructions)
    /\ \E i \in StationIdx : stations[i].busy

\* The functional-unit pool that executes op: the supported_ops of its units.
UnitPool(op) ==
    IF op \in {"ADD", "SUB"} THEN {"ADD", "SUB"}
    ELSE IF op \in {"MUL", "DIV"} THEN {"MUL", "DIV"}
    ELSE {"LOAD", "STORE"}

\* The registers an instruction reads and the register it writes.
Reads(ins) == {ins.src1, ins.src2, ins.base} \ {None}

Writes(ins) == {ins.dest} \ {None}

\* No dependency between instructions x and y of the trace: no register
\* written by one is read or written by the other, and they are not two
\* memory instructions of which one is a STORE.
Independent(x, y) ==
    /\ Writes(instructions[x]) \cap Reads(instructions[y]) = {}
    /\ Reads(instructions[x]) \cap Writes(instructions[y]) = {}
    /\ Writes(instructions[x]) \cap Writes(instructions[y]) = {}
    /\ ~(/\ {instructions[x].op, instructions[y].op} \subseteq {"LOAD", "STORE"}
         /\ "STORE" \in {instructions[x].op, instructions[y].op})

\* Two instructions of equal latency that go to the same unit pool.
SamePoolSameLatency(x, y) ==
    /\ UnitPool(instructions[x].op) = UnitPool(instructions[y].op)
    /\ LATENCIES[instructions[x].op] = LATENCIES[instructions[y].op]

\* C11 as stated: no-overtake within a unit pool: of two independent
\* instructions of equal latency in the same pool, the one issued first (the
\* earlier one of the trace) has its write-back processed first.
C11_CompletionOrderIsIssueOrder ==
    \A x, y \in InstrIdx :
        (/\ x < y
         /\ SamePoolSameLatency(x, y)
         /\ Independent(x, y)
         /\ instructions[y].write_result_cycle # Nil)
        => /\ instructions[x].write_result_cycle # Nil
           /\ Val(instructions[x].write_result_cycle)
                 < Val(instructions[y].write_result_cycle)

\* C11 amended: of two instructions of equal latency in the same pool that
\* both wrote back, the one whose recorded execution start is earlier wrote
\* back earlier, whatever their issue order.
C11_CompletionOrderIsStartOrder ==
    \A x, y \in InstrIdx :
        (/\ SamePoolSameLatency(x, y)
         /\ instructions[x].write_result_cycle # Nil
         /\ instructions[y].write_result_cycle # Nil
         /\ Val(instructions[x].start_cycle) < Val(instructions[y].start_cycle))
        => Val(instructions[x].write_result_cycle)
              < Val(instructions[y].write_result_cycle)

\* Two independent instructions of equal latency in the same pool wrote back
\* against their issue order: the later one started and wrote back first.
C11_Witness ==
    \E x, y \in InstrIdx :
        /\ x < y
        /\ SamePoolSameLatency(x, y)
        /\ Independent(x, y)
        /\ instructions[x].write_result_cycle # Nil
        /\ instructions[y].write_result_cycle # Nil
        /\ Val(instructions[y].start_cycle) < Val(instructions[x].start_cycle)
        /\ Val(instructions[y].write_result_cycle)
              < Val(instructions[x].write_result_cycle)

\* C12: each tick admits at most one instruction: pc never decreases and
\* grows by at most 1 per tick, at most one station goes from free to busy
\* per tick, and the instructions are issued in program order: the issue
\* cycles are strictly increasing with the index in the trace.
C12_OneIssuePerTick ==
    [][/\ pc <= pc'
       /\ pc' <= pc + 1
       /\ Cardinality({i \in StationIdx : ~stations[i].busy /\ stations'[i].busy}) <= 1
       /\ \A m, n \in 1..Len(instructions') :
              (m < n /\ instructions'[n].issue_cycle # Nil)
              => /\ instructions'[m].issue_cycle # Nil
                 /\ Val(instructions'[m].issue_cycle) < Val(instructions'[n].issue_cycle)]_vars

\* The whole trace was issued, its last instruction in this tick after it
\* had been stalled by a structural hazard.
C12_Witness ==
    /\ pc = MaxLen
    /\ issued
    /\ metrics.structural_hazard_stalls > 0
    /\ instructions[MaxLen].issue_cycle = Some(cycle)

\* The functional units that finish in the next tick.
Finishing == {u \in 1..NumUnits : units[u].busy /\ units[u].cycles_left = 1}

\* C13: CDB arbitration: completed_instructions grows by at most 1 per tick;
\* when units finish in a tick, the completion of the first of them in the
\* order ALU1, ALU2, MULDIV1, LOADSTORE1 is the one processed (its tag is on
\* the CDB, its instruction is stamped and counted), and every other
\* finishing unit's station stays bound to its instruction, which gets no
\* write-back stamp, its tag is not broadcast, no operand or status entry
\* waiting for its tag is resolved, and no register other than the winner's
\* destination changes.
C13_CdbArbitration ==
    [][/\ metrics'.completed_instructions <= metrics.completed_instructions + 1
       /\ Finishing # {}
          => LET w == Min(Finishing)
                 kw == StationOf(units[w].reservation_station)
             IN /\ cdb'.busy
                /\ cdb'.reservation_station = units[w].reservation_station
                /\ metrics'.completed_instructions = metrics.completed_instructions + 1
                /\ instructions'[Val(stations[kw].instruction)].write_result_cycle
                      = Some(cycle')
                /\ \A r \in RegIdx :
                      registers'[r] # registers[r]
                      => stations[kw].op # "STORE" /\ names_register(stations[kw].dest, r)
                /\ \A u \in Finishing \ {w} :
                      LET tag == units[u].reservation_station
                          k == StationOf(tag)
                      IN /\ stations'[k].busy
                         /\ stations'[k].instruction = stations[k].instruction
                         /\ instructions'[Val(stations[k].instruction)].write_result_cycle = Nil
                         /\ \A r \in RegIdx : status[r] = tag => status'[r] = tag
                         /\ \A i \in StationIdx :
                               /\ stations[i].qj = tag => stations'[i].qj = tag
                               /\ stations[i].qk = tag => stations'[i].qk = tag]_vars

\* Two units finished in the last tick and the completion of the first one
\* is on the CDB.
C13_Witness ==
    /\ Len(results) >= 2
    /\ cdb.busy
    /\ cdb.reservation_station = results[1][1]

\* The register whose status decides the (qj, vj) slot, and the (qk, vk)
\* slot, of an instruction at issue; None when the slot is not used.
SrcJ(ins) == IF ins.op \in {"LOAD", "STORE"} THEN ins.base ELSE ins.src1

SrcK(ins) ==
    IF ins.op = "STORE" THEN ins.src1
    ELSE IF ins.op = "LOAD" THEN None
    ELSE ins.src2

\* The operand tags station i waits for.
Pending(i) == {stations[i].qj, stations[i].qk} \ {None}

\* The write-back of the step resolves the last pending operand of station i.
Resolved(i) ==
    /\ stations[i].busy
    /\ cdb'.busy
    /\ Pending(i) = {cdb'.reservation_station}

\* The units of a pool that are free once the write-back of the step is
\* over: the units that were free and the units that finish.
FreeUnitsAfterWB(pool) ==
    {u \in 1..NumUnits :
        /\ units[u].supported_ops = pool
        /\ (~units[u].busy \/ units[u].cycles_left = 1)}

\* Station k is ready once the write-back of the step is over: it was
\* waiting for a unit, or for the tag written back, or its completion lost
\* the arbitration of the step.
ReadyAfterWB(k) ==
    /\ stations[k].busy
    /\ ~(cdb'.busy /\ cdb'.reservation_station = stations[k].name)
    /\ Pending(k) \subseteq (IF cdb'.busy THEN {cdb'.reservation_station} ELSE {})
    /\ (~stations[k].executing \/ stations[k].execution_cycles_left = 1)

\* The ready stations that execute visits before station i and that ask
\* for a unit of the same pool.
ReadyBefore(i) ==
    {k \in 1..(i - 1) :
        /\ ReadyAfterWB(k)
        /\ UnitPool(stations[k].op) = UnitPool(stations[i].op)}

\* Station i starts executing in the tick of the step.
StartsNow(i) ==
    /\ stations'[i].executing
    /\ stations'[i].instruction = stations[i].instruction
    /\ instructions'[Val(stations[i].instruction)].start_cycle = Some(cycle')

\* The instruction issued by the step that reads the register written back
\* by the step, whose status the write-back cleared, captured the value
\* written, with no tag.
IssueSeesWriteBack ==
    (pc' = pc + 1 /\ cdb'.busy)
    => LET ins == instructions[pc + 1]
           w == stations[StationOf(cdb'.reservation_station)]
           rs == stations'[CHOOSE i \in StationIdx :
                              stations'[i].busy /\ stations'[i].instruction = Some(pc + 1)]
       IN (w.op # "STORE" /\ get_status(status, w.dest) = w.name)
          => /\ SrcJ(ins) = w.dest => (rs.qj = None /\ rs.vj = cdb'.value)
             /\ SrcK(ins) = w.dest => (rs.qk = None /\ rs.vk = cdb'.value)

\* C14 as stated: same-cycle visibility: a waiting station whose last
\* pending operand is resolved by the write-back of cycle c starts executing
\* in cycle c when a matching unit is free after that write-back; and the
\* instruction issued in cycle c that reads the register written back in
\* cycle c captures the value and no tag.
C14_SameCycleVisibility ==
    [][/\ \A i \in StationIdx :
              (Resolved(i) /\ FreeUnitsAfterWB(UnitPool(stations[i].op)) # {})
              => StartsNow(i)
       /\ IssueSeesWriteBack]_vars

\* C14 amended: the station starts in cycle c when a matching unit is still
\* free as execute reaches it: the matching units free after the write-back
\* outnumber the ready stations of the same unit pool that precede it in
\* all_stations.  The part about issue is unchanged.
C14_SameCycleVisibilityInOrder ==
    [][/\ \A i \in StationIdx :
              (/\ Resolved(i)
               /\ Cardinality(FreeUnitsAfterWB(UnitPool(stations[i].op)))
                     > Cardinality(ReadyBefore(i)))
              => StartsNow(i)
       /\ IssueSeesWriteBack]_vars

\* In the same cycle a producer wrote back, a consumer that held its tag
\* started executing, and an instruction was issued that read the written
\* register from the register file.
C14_Witness ==
    \E p, c \in InstrIdx :
        /\ issued
        /\ pc # c
        /\ instructions[p].write_result_cycle = Some(cycle)
        /\ p \in ProducersOf(c)
        /\ instructions[c].start_cycle = Some(cycle)
        /\ instructions[pc].issue_cycle = Some(cycle)
        /\ instructions[p].dest \in {SrcJ(instructions[pc]), SrcK(instructions[pc])}
        /\ ProducersOf(pc) = {}

\* C15: an instruction never starts or completes in the cycle it was issued:
\* its start_cycle is at least issue_cycle + 1 and its write_result_cycle at
\* least issue_cycle + 1 + the latency of its opcode.
C15_NotInIssueCycle ==
    \A n \in InstrIdx :
        /\ instructions[n].start_cycle # Nil
              => Val(instructions[n].start_cycle) >= Val(instructions[n].issue_cycle) + 1
        /\ instructions[n].write_result_cycle # Nil
              => Val(instructions[n].write_result_cycle)
                    >= Val(instructions[n].issue_cycle) + 1 + LATENCIES[instructions[n].op]

\* An instruction started in the cycle after its issue and wrote back a
\* latency later, in the cycle in which a later instruction was issued into
\* a station.
C15_Witness ==
    \E n \in InstrIdx :
        /\ instructions[n].issue_cycle # Nil
        /\ instructions[n].start_cycle = Some(Val(instructions[n].issue_cycle) + 1)
        /\ instructions[n].write_result_cycle
              = Some(Val(instructions[n].issue_cycle) + 1 + LATENCIES[instructions[n].op])
        /\ instructions[n].write_result_cycle = Some(cycle)
        /\ issued

\* C16: each of the four timestamps of an instruction is written once: when
\* it holds a cycle number, no later tick changes it.
C16_TimestampsWrittenOnce ==
    [][\A n \in InstrIdx :
          /\ instructions[n].issue_cycle # Nil
                => instructions'[n].issue_cycle = instructions[n].issue_cycle
          /\ instructions[n].start_cycle # Nil
                => instructions'[n].start_cycle = instructions[n].start_cycle
          /\ instructions[n].execute_complete_cycle # Nil
                => instructions'[n].execute_complete_cycle
                      = instructions[n].execute_complete_cycle
          /\ instructions[n].write_result_cycle # Nil
                => instructions'[n].write_result_cycle
                      = instructions[n].write_result_cycle]_vars

\* The stations of the class of the next instruction that are free when
\* issue runs in the tick of the step: the free ones and the one released
\* by the write-back of the step.
FreeAtIssue ==
    {i \in PoolOf(instructions[pc + 1].op) : ~stations[i].busy \/ Processed(i)}

\* C17: structural-hazard stall: in a tick in which pc is inside the trace
\* and no station of the class of the next instruction is free at issue,
\* structural_hazard_stalls grows by exactly 1, pc stays, no station is
\* bound to an instruction, no status entry is renamed and no register
\* changes but the destination of the write-back of the tick.  In a tick in
\* which a station of the class is free at issue, the instruction at pc is
\* the one issued, into a station of its class, and no stall is counted.
C17_StructuralStall ==
    [][(phase = "running" /\ pc < Len(instructions))
       => IF FreeAtIssue = {}
          THEN /\ metrics'.structural_hazard_stalls = metrics.structural_hazard_stalls + 1
               /\ pc' = pc
               /\ ~issued'
               /\ instructions'[pc + 1].issue_cycle = Nil
               /\ \A i \in StationIdx :
                     stations'[i].busy
                     => /\ stations[i].busy
                        /\ stations'[i].instruction = stations[i].instruction
                        /\ stations'[i].op = stations[i].op
                        /\ stations'[i].dest = stations[i].dest
               /\ \A r \in RegIdx : status'[r] \in {status[r], None}
               /\ \A r \in RegIdx :
                     registers'[r] # registers[r]
                     => /\ cdb'.busy
                        /\ names_register(stations[StationOf(cdb'.reservation_station)].dest, r)
          ELSE /\ metrics'.structural_hazard_stalls = metrics.structural_hazard_stalls
               /\ pc' = pc + 1
               /\ issued'
               /\ instructions'[pc + 1].issue_cycle = Some(cycle')
               /\ \E i \in FreeAtIssue :
                     /\ stations'[i].busy
                     /\ stations'[i].instruction = Some(pc + 1)]_vars

\* The last instruction of the trace was issued in this tick after it had
\* been stalled for four ticks or more.
C17_Witness ==
    /\ metrics.structural_hazard_stalls >= 4
    /\ issued
    /\ pc = Len(instructions)

\* The register renamed by the issue of the step, if any.
RenamedByIssue ==
    IF pc' = pc + 1 /\ instructions[pc + 1].op # "STORE"
    THEN {get_register_index(instructions[pc + 1].dest)}
    ELSE {}

\* C18: when the write-back of a non-STORE station S with destination r is
\* processed, the status of r becomes None if it named S and is left as it
\* was if it did not, and the status of every other register is left as it
\* was (the register renamed by the issue of the same tick apart).
C18_StatusClearedOnlyIfOwn ==
    [][\A i \in StationIdx :
          (Processed(i) /\ stations[i].op # "STORE")
          => \A q \in RegIdx \ RenamedByIssue :
                IF names_register(stations[i].dest, q) /\ status[q] = stations[i].name
                THEN status'[q] = None
                ELSE status'[q] = status[q]]_vars

\* A write-back was processed in this tick for a register whose status
\* names another station since an earlier tick.
C18_Witness ==
    /\ ~issued
    /\ cdb.busy
    /\ \E p \in InstrIdx :
          /\ instructions[p].write_result_cycle = Some(cycle)
          /\ instructions[p].dest # None
          /\ get_status(status, instructions[p].dest) # None

\* The instruction of the trace at position n is the one parsed from the
\* line with these operands.
IsInstr(n, op, dest, src1, src2, offset, base) ==
    /\ n \in InstrIdx
    /\ instructions[n].op = op
    /\ instructions[n].dest = dest
    /\ instructions[n].src1 = src1
    /\ instructions[n].src2 = src2
    /\ instructions[n].offset = offset
    /\ instructions[n].base = base

\* The trace is `ADD R4, R1, R2`.
IsAddAlone ==
    Len(instructions) = 1 /\ IsInstr(1, "ADD", "R4", "R1", "R2", Nil, None)

\* The trace is `LOAD R1, 4(R0)`.
IsLoadAlone ==
    Len(instructions) = 1 /\ IsInstr(1, "LOAD", "R1", None, None, Some(4), "R0")

\* C19: a trace of one instruction issues in cycle 1, starts executing in
\* cycle 2 and writes back in cycle 2 + latency(op), the tick in which the
\* simulation ends.  `ADD R4, R1, R2` ends after 4 cycles with R4 = 12 and
\* IPC = 1/4; `LOAD R1, 4(R0)` with mem[4] = 42 writes R1 = 42 in cycle 7.
C19_SingleInstruction ==
    Len(instructions) = 1
    => LET ins == instructions[1]
           wb == 2 + LATENCIES[ins.op]
       IN /\ cycle <= wb
          /\ ins.issue_cycle = IF cycle >= 1 THEN Some(1) ELSE Nil
          /\ ins.start_cycle = IF cycle >= 2 THEN Some(2) ELSE Nil
          /\ ins.write_result_cycle = IF cycle >= wb THEN Some(wb) ELSE Nil
          /\ (phase = "done") <=> (cycle = wb)
          /\ (IsAddAlone /\ phase = "done")
                => /\ cycle = 4
                   /\ read(registers, "R4") = 12
                   /\ metrics.completed_instructions = 1
                   /\ metrics.total_cycles = 4
          /\ IsLoadAlone
                => read(registers, "R1") = (IF cycle >= 7 THEN 42 ELSE 5)

\* The run of `ADD R4, R1, R2` has ended.
C19_Witness ==
    /\ IsAddAlone
    /\ phase = "done"
    /\ read(registers, "R4") = 12

\* The trace is `ADD R4, R1, R2` followed by `SUB R5, R4, R3`.
IsAddThenSub ==
    /\ Len(instructions) = 2
    /\ IsInstr(1, "ADD", "R4", "R1", "R2", Nil, None)
    /\ IsInstr(2, "SUB", "R5", "R4", "R3", Nil, None)

\* From its issue in cycle 2 until the ADD writes back in cycle 4 the
\* station of the SUB holds the tag of the station of the ADD for R4, and
\* the value 3 of R3.
SubHoldsTagOfAdd ==
    (cycle >= 2 /\ cycle < 4)
    => \E a, b \in StationIdx :
          /\ stations[a].busy /\ stations[a].instruction = Some(1)
          /\ stations[b].busy /\ stations[b].instruction = Some(2)
          /\ stations[b].qj = stations[a].name
          /\ stations[b].vj = Nil
          /\ stations[b].qk = None
          /\ stations[b].vk = Some(3)
          /\ instructions[2].issue_cycle = Some(2)

\* C20 as stated: for `ADD R4, R1, R2` ; `SUB R5, R4, R3` with R1 = 5,
\* R2 = 7, R3 = 3 the SUB is issued holding the tag of the ADD's station for
\* R4, the final value of R5 is 9 and the run ends with total_cycles = 7.
C20_AddThenSubSevenCycles ==
    IsAddThenSub
    => /\ SubHoldsTagOfAdd
       /\ phase = "done"
             => /\ read(registers, "R5") = 9
                /\ metrics.total_cycles = 7

\* C20 amended: the same, with total_cycles = 6.
C20_AddThenSubSixCycles ==
    IsAddThenSub
    => /\ SubHoldsTagOfAdd
       /\ phase = "done"
             => /\ read(registers, "R5") = 9
                /\ metrics.total_cycles = 6
                /\ cycle = 6

\* The run of `ADD R4, R1, R2` ; `SUB R5, R4, R3` has ended.
C20_Witness ==
    /\ IsAddThenSub
    /\ phase = "done"
    /\ read(registers, "R5") = 9

\* C21 as stated: sixteen ADDs without read-after-write dependency saturate
\* the 3 ALU stations and 2 ALU units: at termination
\* structural_hazard_stalls > 0 and completed / total_cycles <= 2/3.
C21_SixteenAddsSaturate ==
    (phase = "done" /\ Len(instructions) = 16)
    => /\ metrics.structural_hazard_stalls > 0
       /\ 3 * metrics.completed_instructions <= 2 * metrics.total_cycles

\* C21 amended: they do not saturate: one ADD is issued in every tick and
\* one writes back in every tick from cycle 4 on; at termination
\* structural_hazard_stalls = 0, completed_instructions = 16 and
\* total_cycles = 19.
C21_SixteenAddsFlow ==
    Len(instructions) = 16
    => /\ metrics.structural_hazard_stalls = 0
       /\ \A n \in 1..16 :
             /\ cycle >= n => instructions[n].issue_cycle = Some(n)
             /\ cycle >= n + 3 => instructions[n].write_result_cycle = Some(n + 3)
       /\ phase = "done"
             => /\ metrics.completed_instructions = 16
                /\ metrics.total_cycles = 19

\* The run of sixteen ADDs into five registers in turn has ended.
C21_Witness ==
    /\ phase = "done"
    /\ Len(instructions) = 16
    /\ \A n \in 1..16 : instructions[n].op = "ADD"
    /\ instructions[1].dest # instructions[2].dest
    /\ instructions[1].dest # instructions[3].dest

\* The trace is `STORE 0(R0), R1` ; `LOAD R3, 0(R0)`.
IsStoreThenLoad ==
    /\ Len(instructions) = 2
    /\ IsInstr(1, "STORE", None, "R1", None, Some(0), "R0")
    /\ IsInstr(2, "LOAD", "R3", None, None, Some(0), "R0")

\* C22: for `STORE 0(R0), R1` ; `LOAD R3, 0(R0)` with R0 = 0 and memory all
\* zero, whatever value v R1 holds at the start, R3 = v once the run has
\* ended: the LOAD reads cell 0 after the STORE has written it.
C22_StoreThenLoad ==
    \A v \in StoredValues :
        (read(registers, "R1") = v)
        => []((phase = "done" /\ IsStoreThenLoad)
                 => /\ read(registers, "R3") = v
                    /\ MemRead(memory, 0) = v)

\* The run of `STORE 0(R0), R1` ; `LOAD R3, 0(R0)` has ended with R1 = 42.
C22_Witness ==
    /\ IsStoreThenLoad
    /\ phase = "done"
    /\ read(registers, "R1") = 42
    /\ instructions[1].write_result_cycle # Nil
    /\ instructions[2].write_result_cycle # Nil

\* The tags of the STORE buffers.
StoreNames == {stations[i].name : i \in StoreIdx}

\* C23: a STORE leaves the register file unchanged.  The tick that issues a
\* STORE sets no status entry; the tick that processes the write-back of a
\* STORE changes no register, changes no status entry but the one renamed by
\* the issue of that tick, and leaves the operand slots of every other busy
\* station as they were; no status entry and no operand tag ever names a
\* STORE buffer.
C23_StoreLeavesRegisterFile ==
    [][/\ (pc' = pc + 1 /\ instructions[pc + 1].op = "STORE")
          => \A r \in RegIdx : status'[r] # None => status'[r] = status[r]
       /\ \A i \in StationIdx :
             (Processed(i) /\ stations[i].op = "STORE")
             => /\ registers' = registers
                /\ \A r \in RegIdx \ RenamedByIssue : status'[r] = status[r]
                /\ \A k \in StationIdx \ {i} :
                      stations[k].busy
                      => /\ stations'[k].qj = stations[k].qj
                         /\ stations'[k].vj = stations[k].vj
                         /\ stations'[k].qk = stations[k].qk
                         /\ stations'[k].vk = stations[k].vk
       /\ \A r \in RegIdx : status'[r] \notin StoreNames
       /\ \A k \in StationIdx :
             stations'[k].qj \notin StoreNames /\ stations'[k].qk \notin StoreNames]_vars

\* The write-back of a STORE was processed in this tick while a register is
\* pending and a busy station waits for an operand.
C23_Witness ==
    /\ cdb.busy
    /\ cdb.reservation_station \in StoreNames
    /\ \E r \in RegIdx : status[r] # None
    /\ \E k \in StationIdx : stations[k].busy /\ Pending(k) # {}

\* Instruction n is a DIV whose divisor register holds 0.
DivByZero(n) ==
    instructions[n].op = "DIV" /\ read(registers, instructions[n].src2) = 0

\* C24: a DIV whose divisor is 0 does not stop the simulation: no exception
\* leaves tick(); it starts in the cycle after its issue, writes back
\* LATENCIES.DIV cycles later, its destination register then holds 0, and an
\* instruction that waited for its tag holds the operand 0 from then on and
\* computes with it.  `DIV R1, R2, R0` ends with R1 = 0.
C24_DivByZero ==
    /\ phase # "crashed"
    /\ \A n \in InstrIdx :
          DivByZero(n)
          => /\ cycle >= n + 1 => instructions[n].start_cycle = Some(n + 1)
             /\ cycle < n + 1 + LATENCIES.DIV => instructions[n].write_result_cycle = Nil
             /\ cycle >= n + 1 + LATENCIES.DIV
                   => /\ instructions[n].write_result_cycle = Some(n + 1 + LATENCIES.DIV)
                      /\ read(registers, instructions[n].dest) = 0
                      /\ get_status(status, instructions[n].dest) = None
                      /\ \A k \in StationIdx :
                            (stations[k].busy /\ stations[k].instruction # Nil
                               /\ producers[Val(stations[k].instruction)].j = Some(n))
                            => stations[k].qj = None /\ stations[k].vj = Some(0)
             /\ phase = "done"
                   => /\ metrics.completed_instructions = Len(instructions)
                      /\ \A c \in InstrIdx :
                            producers[c].j = Some(n)
                            => read(registers, "R5") =
                                  IF instructions[c].op = "ADD" THEN 3 ELSE 0 - 3

\* The run of a DIV by R0 followed by an instruction that waited for its
\* result has ended.
C24_Witness ==
    /\ phase = "done"
    /\ Len(instructions) = 2
    /\ DivByZero(1)
    /\ producers[2].j = Some(1)
    /\ read(registers, instructions[1].dest) = 0

\* An address outside [0, MEMORY_SIZE).
OutOfRange(a) == a < 0 \/ a >= MEMORY_SIZE

\* The address execute computes for the LOAD or STORE of station k, the
\* sum of the station's vj and offset; Nil when the sum raises TypeError
\* because one of the two is None.  The offset is the one the station
\* holds, which is the offset of an earlier instruction when issue raised
\* before it wrote the field.
EffAddr(k) ==
    IF address_raises(stations[k]) THEN Nil
    ELSE Some(Val(stations[k].vj) + Val(stations[k].offset))

\* The address the trace gives memory instruction n: the value of its base
\* register, which no instruction of the trace writes, plus its offset.
TraceAddr(n) == read(registers, instructions[n].base) + Val(instructions[n].offset)

\* The addresses outside the memory within 8 cells of its two ends.
NearOutside == ((0 - 8)..(0 - 1)) \cup (MEMORY_SIZE..(MEMORY_SIZE + 8))

\* C25: memory access outside [0, MEMORY_SIZE) is a soft failure: no
\* exception leaves tick(); on every memory the run reaches, a read at such
\* an address returns 0 and a write at such an address leaves the memory as
\* it is; a LOAD or STORE with such an effective address writes back
\* LATENCIES.LOAD cycles after its start and its station is then free, the
\* LOAD has put 0 in its destination, and a trace whose STOREs are all out
\* of range leaves the memory as it was.
C25_OutOfRangeIsSoft ==
    /\ phase # "crashed"
    /\ \A a \in NearOutside :
          /\ MemRead(memory, a) = 0
          /\ MemWrite(memory, a, 7) = memory
    /\ \A n \in InstrIdx :
          OutOfRange(TraceAddr(n))
          => /\ (instructions[n].start_cycle # Nil
                  /\ cycle >= Val(instructions[n].start_cycle) + LATENCIES.LOAD)
                => /\ instructions[n].write_result_cycle
                         = Some(Val(instructions[n].start_cycle) + LATENCIES.LOAD)
                   /\ \A k \in StationIdx :
                         stations[k].busy => stations[k].instruction # Some(n)
                   /\ instructions[n].op = "LOAD"
                         => read(registers, instructions[n].dest) = 0
             /\ \A k \in StationIdx :
                   (stations[k].busy /\ stations[k].instruction = Some(n))
                   => /\ EffAddr(k) = Some(TraceAddr(n))
                      /\ stations[k].address # Nil
                            => stations[k].address = EffAddr(k)
    /\ (\A n \in InstrIdx : instructions[n].op = "STORE" => OutOfRange(TraceAddr(n)))
          => memory = ScenarioMemory
    /\ phase = "done" => metrics.completed_instructions = Len(instructions)

\* The run of a STORE above the memory followed by a LOAD below it has
\* ended.
C25_Witness ==
    /\ phase = "done"
    /\ Len(instructions) = 2
    /\ instructions[1].op = "STORE" /\ TraceAddr(1) >= MEMORY_SIZE
    /\ instructions[2].op = "LOAD" /\ TraceAddr(2) < 0
    /\ instructions[1].write_result_cycle # Nil
    /\ instructions[2].write_result_cycle # Nil

\* C26: the simulator never crashes on the traces the parser accepts,
\* `ADD R9, R1, R2` among them: no exception leaves tick(), whether run()
\* or run_step() calls it.
C26_NeverCrashes == phase # "crashed"

\* The opcodes a station of this position may hold.
StationOps(i) ==
    IF i \in AluIdx THEN {"ADD", "SUB"}
    ELSE IF i \in MulDivIdx THEN {"MUL", "DIV"}
    ELSE IF i \in LoadIdx THEN {"LOAD"}
    ELSE {"STORE"}

\* C27: no operation is dispatched into the wrong pool: a busy ALU station
\* holds ADD or SUB, a busy MUL/DIV station MUL or DIV, a busy LOAD buffer
\* LOAD and a busy STORE buffer STORE, and a busy functional unit is bound
\* to a busy station whose op the unit supports.
C27_DispatchPools ==
    /\ \A i \in StationIdx :
          stations[i].busy => stations[i].op \in StationOps(i)
    /\ \A u \in 1..NumUnits :
          units[u].busy
          => \E k \in StationIdx :
                /\ stations[k].name = units[u].reservation_station
                /\ stations[k].busy
                /\ stations[k].op \in units[u].supported_ops

\* A SUB, a DIV and a STORE are in their stations, two of them on a
\* functional unit.
C27_Witness ==
    /\ \E i \in AluIdx : stations[i].busy /\ stations[i].op = "SUB"
    /\ \E i \in MulDivIdx : stations[i].busy /\ stations[i].op = "DIV"
    /\ \E i \in StoreIdx : stations[i].busy /\ stations[i].op = "STORE"
    /\ Cardinality({u \in 1..NumUnits : units[u].busy}) = 2

\* The status of register reg when issue runs in the tick of the step: the
\* status before the step, cleared if it names the station whose write-back
\* the step processes.
StatusAtIssue(reg) ==
    IF cdb'.busy /\ get_status(status, reg) = cdb'.reservation_station
    THEN None
    ELSE get_status(status, reg)

\* The station bound by the issue of the step, after the step: the first
\* free station of the pool of the next instruction when issue runs, that
\* is after the write-back of the step has released its station.  Defined
\* for the steps in which issue binds a station, whether it then returns
\* or raises.
IssuedStation ==
    stations'[get_available_station(before_issue(Sim).stations,
                                    instructions[pc + 1].op)]

\* C28: operand capture at issue.  For the instruction issued by the step
\* and each source register it uses (src1 to j and src2 to k for
\* ADD/SUB/MUL/DIV, base to j for LOAD, base to j and src1 to k for STORE):
\* if the status of the register when issue runs names a station, the slot's
\* q is that tag; otherwise q is None and v is the value of the register.
\* The status read is the one before the destination is renamed: the
\* instruction never waits for its own station.
C28_OperandCapture ==
    [][pc' = pc + 1
       => LET ins == instructions[pc + 1]
              rs == IssuedStation
          IN /\ rs.op = ins.op
             /\ IF StatusAtIssue(SrcJ(ins)) # None
                THEN rs.qj = StatusAtIssue(SrcJ(ins))
                ELSE rs.qj = None /\ rs.vj = Some(read(registers', SrcJ(ins)))
             /\ SrcK(ins) # None
                   => IF StatusAtIssue(SrcK(ins)) # None
                      THEN rs.qk = StatusAtIssue(SrcK(ins))
                      ELSE rs.qk = None /\ rs.vk = Some(read(registers', SrcK(ins)))
             /\ SrcK(ins) = None => rs.qk = None /\ rs.vk = Nil
             /\ rs.qj # rs.name /\ rs.qk # rs.name
             /\ ins.op # "STORE" => get_status(status', ins.dest) = rs.name]_vars

\* The instruction issued in this tick reads the register it writes; it
\* holds the tag of the earlier producer of that register, and the status
\* of the register names its own station.
C28_Witness ==
    /\ issued
    /\ pc >= 2
    /\ instructions[pc].dest \in {SrcJ(instructions[pc]), SrcK(instructions[pc])}
    /\ \E i \in StationIdx :
          /\ stations[i].busy
          /\ stations[i].instruction = Some(pc)
          /\ get_status(status, instructions[pc].dest) = stations[i].name
          /\ Pending(i) # {}

\* The tags of the completions that the functional units returned in the
\* tick of the step.
Completions == {results'[j][1] : j \in 1..Len(results')}

\* C29: execution latency.  A busy unit is bound to a station that executes
\* an instruction started in cycle s; its cycles_left, mirrored in the
\* station's execution_cycles_left, is s + latency(op) - cycle, latency(op)
\* in the cycle of the start, and the unit returns its completion in the
\* tick of cycle s + latency(op) and in no other.  An executing station has
\* such a unit.  For every instruction that has written back,
\* write_result_cycle = execute_complete_cycle = start_cycle + latency(op).
C29_ExecutionLatency ==
    [][/\ \A u \in 1..NumUnits :
             units[u].busy
             => \E k \in StationIdx :
                   /\ stations[k].name = units[u].reservation_station
                   /\ stations[k].executing
                   /\ stations[k].op \in DOMAIN LATENCIES
                   /\ LET n == Val(stations[k].instruction)
                          finish == Val(instructions[n].start_cycle) + LATENCIES[stations[k].op]
                      IN /\ units[u].cycles_left = finish - cycle
                         /\ stations[k].execution_cycles_left = units[u].cycles_left
                         /\ instructions[n].start_cycle = Some(cycle)
                               => units[u].cycles_left = LATENCIES[stations[k].op]
                         /\ (stations[k].name \in Completions) <=> (cycle' = finish)
       /\ \A k \in StationIdx :
             stations[k].executing
             => \E u \in 1..NumUnits :
                   units[u].busy /\ units[u].reservation_station = stations[k].name
       /\ \A n \in InstrIdx :
             instructions'[n].write_result_cycle # Nil
             => /\ instructions'[n].execute_complete_cycle = instructions'[n].write_result_cycle
                /\ Val(instructions'[n].write_result_cycle)
                      = Val(instructions'[n].start_cycle) + LATENCIES[instructions'[n].op]]_vars

\* Two ALU instructions waited for the same producer p and started in the
\* cycle of its write-back; both have written back, and the start_cycle of
\* the second is the cycle of the write-back of the first: its first
\* completion lost the bus and it was executed again.
C29_Witness ==
    \E n, m, p \in InstrIdx :
        /\ n # m
        /\ {instructions[n].op, instructions[m].op} \subseteq {"ADD", "SUB"}
        /\ ProducersOf(n) = {p}
        /\ ProducersOf(m) = {p}
        /\ instructions[n].write_result_cycle # Nil
        /\ instructions[m].write_result_cycle # Nil
        /\ instructions[m].start_cycle = instructions[p].write_result_cycle
        /\ instructions[n].start_cycle = instructions[m].write_result_cycle

\* C30: effective address.  The address of a station is None unless the
\* station holds a LOAD or STORE that has started executing; it is set by
\* the tick in which the instruction starts, to vj + offset, and a station
\* that keeps its instruction keeps its address: a second execution of the
\* instruction computes the same address.  A station released by the
\* write-back has no address.
C30_EffectiveAddress ==
    [][\A i \in StationIdx :
          /\ stations'[i].address # Nil
                <=> /\ stations'[i].busy
                    /\ stations'[i].op \in {"LOAD", "STORE"}
                    /\ instructions'[Val(stations'[i].instruction)].start_cycle # Nil
          /\ stations'[i].address # Nil
                => stations'[i].address = Some(Val(stations'[i].vj) + Val(stations'[i].offset))
          /\ (stations[i].address = Nil /\ stations'[i].address # Nil)
                => instructions'[Val(stations'[i].instruction)].start_cycle = Some(cycle')
          /\ (stations[i].address # Nil /\ stations'[i].busy
                  /\ stations'[i].instruction = stations[i].instruction)
                => stations'[i].address = stations[i].address
          /\ (stations[i].address # Nil /\ Processed(i))
                => stations'[i].address = Nil \/ stations'[i].instruction # stations[i].instruction]_vars

\* The completion of a LOAD lost the bus in this tick and the LOAD was
\* started again: its station holds the address computed at its first
\* start.
C30_Witness ==
    /\ Len(results) >= 2
    /\ \E i \in LoadIdx :
          /\ stations[i].busy
          /\ stations[i].executing
          /\ stations[i].address # Nil
          /\ \E j \in 2..Len(results) : results[j][1] = stations[i].name
          /\ instructions[Val(stations[i].instruction)].start_cycle = Some(cycle)

\* C31: CDB snoop.  In a tick that processes the write-back of tag t with
\* value x, every operand slot with q = t of a station that waits has
\* q = None and v = x after the tick, and every slot whose q is not t keeps
\* its q and its v; in a tick without write-back every slot of a busy
\* station keeps them.  The station released by the write-back is the one
\* station whose slots are reset.
C31_CdbSnoop ==
    [][\A i \in StationIdx :
          (stations[i].busy /\ ~Processed(i))
          => /\ IF cdb'.busy /\ stations[i].qj = cdb'.reservation_station
                THEN stations'[i].qj = None /\ stations'[i].vj = cdb'.value
                                           /\ cdb'.value # Nil
                ELSE stations'[i].qj = stations[i].qj /\ stations'[i].vj = stations[i].vj
             /\ IF cdb'.busy /\ stations[i].qk = cdb'.reservation_station
                THEN stations'[i].qk = None /\ stations'[i].vk = cdb'.value
                                           /\ cdb'.value # Nil
                ELSE stations'[i].qk = stations[i].qk /\ stations'[i].vk = stations[i].vk]_vars

\* The write-back of this tick resolved the j slot of a station whose k
\* slot still waits for another tag.
C31_Witness ==
    /\ cdb.busy
    /\ \E i \in StationIdx :
          /\ stations[i].busy
          /\ producers[Val(stations[i].instruction)].j # Nil
          /\ instructions[Val(producers[Val(stations[i].instruction)].j)].write_result_cycle
                = Some(cycle)
          /\ stations[i].qj = None
          /\ stations[i].vj = cdb.value
          /\ stations[i].qk # None

\* The unit that execute gives to ready station i in the tick of the step:
\* the units of its class free after the write-back, in the order of
\* all_units, go one by one to the ready stations in the order of
\* all_stations.
UnitFor(i) ==
    LET free == FreeUnitsAfterWB(UnitPool(stations[i].op))
    IN {u \in free : Cardinality({v \in free : v < u}) = Cardinality(ReadyBefore(i))}

\* C32: execute tie-break.  The stations ready after the write-back of a
\* tick are served in the order ALU1..ALU3, MUL1..MUL2, LOAD1..LOAD2,
\* STORE1..STORE2, each taking the first unit of its class that is still
\* free: a ready station starts in the tick exactly when the free units of
\* its class outnumber the ready stations of that class before it, on the
\* unit at that rank, and otherwise stays waiting with its operands.  A
\* ready LOAD buffer gets the LOAD/STORE unit before any ready STORE
\* buffer, whatever the program order.
C32_ExecuteTieBreak ==
    [][\A i \in StationIdx :
          ReadyAfterWB(i)
          => IF UnitFor(i) # {}
             THEN /\ StartsNow(i)
                  /\ \A u \in UnitFor(i) :
                        /\ units'[u].busy
                        /\ units'[u].reservation_station = stations[i].name
             ELSE /\ ~stations'[i].executing
                  /\ stations'[i].busy
                  /\ stations'[i].instruction = stations[i].instruction
                  /\ stations'[i].qj = None /\ stations'[i].qk = None
                  /\ \A u \in 1..NumUnits :
                        units'[u].reservation_station # stations[i].name]_vars

\* A LOAD started in this tick on the LOAD/STORE unit while a STORE issued
\* before it is ready and waits.
C32_Witness ==
    \E l \in LoadIdx, s \in StoreIdx :
        /\ stations[l].busy /\ stations[l].executing
        /\ instructions[Val(stations[l].instruction)].start_cycle = Some(cycle)
        /\ stations[s].busy /\ ~stations[s].executing
        /\ Pending(s) = {}
        /\ Val(stations[s].instruction) < Val(stations[l].instruction)

\* Three ALU stations were ready for two units: ALU1 and ALU2 execute since
\* this tick and ALU3 waits with its operands.
C32_WitnessAlu ==
    /\ \A i \in {1, 2} :
          /\ stations[i].executing
          /\ instructions[Val(stations[i].instruction)].start_cycle = Some(cycle)
    /\ stations[3].busy /\ ~stations[3].executing /\ Pending(3) = {}

\* C33: metrics accounting.  After every tick total_cycles is the cycle
\* counter, total_rs_cycles is (NUM_ALU_RS + NUM_MUL_DIV_RS) x cycle = 5 x
\* cycle and total_ls_buffer_cycles is (NUM_LOAD_BUFFER_ENTRIES +
\* NUM_STORE_BUFFER_ENTRIES) x cycle = 4 x cycle; in the tick rs_busy_cycles
\* grew by the number of ALU and MUL/DIV stations, and ls_buffer_busy_cycles
\* by the number of LOAD and STORE buffers, that were busy before the tick;
\* the busy counters never exceed their totals.
C33_MetricsAccounting ==
    [][/\ metrics'.total_cycles = cycle'
       /\ metrics'.total_rs_cycles = (NUM_ALU_RS + NUM_MUL_DIV_RS) * cycle'
       /\ metrics'.total_rs_cycles = 5 * cycle'
       /\ metrics'.total_ls_buffer_cycles
             = (NUM_LOAD_BUFFER_ENTRIES + NUM_STORE_BUFFER_ENTRIES) * cycle'
       /\ metrics'.total_ls_buffer_cycles = 4 * cycle'
       /\ cycle' = cycle + 1
             => /\ metrics'.rs_busy_cycles = metrics.rs_busy_cycles
                      + Cardinality({i \in AluIdx \cup MulDivIdx : stations[i].busy})
                /\ metrics'.ls_buffer_busy_cycles = metrics.ls_buffer_busy_cycles
                      + Cardinality({i \in LoadIdx \cup StoreIdx : stations[i].busy})
       /\ cycle' = cycle
             => /\ metrics'.rs_busy_cycles = metrics.rs_busy_cycles
                /\ metrics'.ls_buffer_busy_cycles = metrics.ls_buffer_busy_cycles
       /\ metrics'.rs_busy_cycles <= metrics'.total_rs_cycles
       /\ metrics'.ls_buffer_busy_cycles <= metrics'.total_ls_buffer_cycles]_vars

\* The tick of this cycle began with a busy ALU or MUL/DIV station and a
\* busy buffer, and released one of them: the sample differs from the
\* occupancy after the tick.
C33_Witness ==
    /\ cycle >= 3
    /\ cdb.busy
    /\ metrics.rs_busy_cycles >= 2
    /\ metrics.ls_buffer_busy_cycles >= 2
    /\ metrics.rs_busy_cycles < metrics.total_rs_cycles

\* C34: termination.  Every run on a trace whose registers are all within
\* R0..R7 reaches a tick that reports done, no exception leaves tick(), and
\* the run ends before cycle MaxCycle: no busy station waits forever for a
\* tag or a unit.
C34_Termination ==
    /\ [](cycle < MaxCycle /\ phase # "crashed")
    /\ (phase = "running") ~> (phase = "done")

\* A run of MaxLen instructions has ended in which the completion of an
\* instruction lost the bus and an instruction waited for a producer.
C34_Witness ==
    /\ phase = "done"
    /\ Len(instructions) = MaxLen
    /\ metrics.completed_instructions = MaxLen
    /\ \E n \in InstrIdx : ProducersOf(n) # {}
    /\ \E n \in InstrIdx :
          Val(instructions[n].start_cycle) > Max({Val(instructions[n].issue_cycle) + 1}
                \cup {Val(instructions[q].write_result_cycle) : q \in ProducersOf(n)})

\* The completion of station k is in the list returned by
\* FunctionalUnits.tick in the tick of the step, behind the first one.
LosesBus(k) ==
    /\ stations[k].busy
    /\ \E j \in 2..Len(results') : results'[j][1] = stations[k].name

\* Instruction n is held by a station whose completion lost the arbitration
\* of the last tick.
LostBus(n) ==
    \E j \in 2..Len(results) :
        LET k == StationOf(results[j][1])
        IN stations[k].busy /\ stations[k].instruction = Some(n)

\* The station of a completion that loses the arbitration of the step keeps
\* its instruction and its operands, ready; its write-back is not recorded;
\* it starts again in the step, with the full latency and on one unit,
\* exactly when execute finds a free unit of its class for it, and otherwise
\* it waits, not executing, bound to no unit.
LoserKept ==
    \A k \in StationIdx :
        LosesBus(k)
        => LET n == Val(stations[k].instruction)
               on == {u \in 1..NumUnits :
                         units'[u].reservation_station = stations[k].name}
           IN /\ stations[k].executing
              /\ stations'[k].busy
              /\ stations'[k].instruction = stations[k].instruction
              /\ stations'[k].op = stations[k].op
              /\ stations[k].qj = None /\ stations[k].qk = None
              /\ stations'[k].qj = None /\ stations'[k].qk = None
              /\ stations'[k].vj = stations[k].vj
              /\ stations'[k].vk = stations[k].vk
              /\ instructions'[n].write_result_cycle = Nil
              /\ stations'[k].executing <=> UnitFor(k) # {}
              /\ IF stations'[k].executing
                 THEN /\ on = UnitFor(k)
                      /\ Cardinality(on) = 1
                      /\ \A u \in on :
                            /\ units'[u].busy
                            /\ units'[u].cycles_left = LATENCIES[stations[k].op]
                      /\ stations'[k].execution_cycles_left = LATENCIES[stations[k].op]
                      /\ instructions'[n].start_cycle = Some(cycle')
                 ELSE on = {}

\* A write-back that was processed is never processed again: its cycle stays
\* and no busy station holds the instruction.
WrittenOnce ==
    \A n \in InstrIdx :
        instructions[n].write_result_cycle # Nil
        => /\ instructions'[n].write_result_cycle = instructions[n].write_result_cycle
           /\ \A k \in StationIdx :
                 stations'[k].busy => stations'[k].instruction # Some(n)

\* C35: a station whose completion loses the CDB arbitration is not lost.
\* It stays busy with its operands ready, the unit it ran on is released, it
\* is started again with its full latency (in the tick of the loss when a
\* unit of its class is free when execute reaches it), and its write-back
\* is eventually processed, once.
C35_LoserNotLost ==
    /\ [][LoserKept /\ WrittenOnce]_vars
    /\ \A n \in 1..MaxLen :
          LostBus(n) ~> (n \in InstrIdx /\ instructions[n].write_result_cycle # Nil
                         /\ \A k \in StationIdx : stations[k].instruction # Some(n))

\* The completion of an arithmetic instruction lost the bus to another
\* completion in the last tick; its station started again in that tick with
\* its full latency and its operands, on a unit of its class.
C35_Witness ==
    /\ Len(results) = 2
    /\ cdb.busy /\ cdb.reservation_station = results[1][1]
    /\ \E n \in InstrIdx :
          /\ LostBus(n)
          /\ instructions[n].op \in {"ADD", "SUB", "MUL", "DIV"}
          /\ instructions[n].start_cycle = Some(cycle)
          /\ instructions[n].write_result_cycle = Nil
          /\ \E k \in StationIdx :
                /\ stations[k].instruction = Some(n)
                /\ stations[k].executing
                /\ stations[k].execution_cycles_left = LATENCIES[stations[k].op]
                /\ stations[k].qj = None /\ stations[k].qk = None
                /\ \E u \in 1..NumUnits :
                      /\ units[u].busy
                      /\ units[u].reservation_station = stations[k].name
                      /\ units[u].cycles_left = LATENCIES[stations[k].op]

\* C36: no station waits on itself.  In every reachable state the tags qj
\* and qk of a busy station differ from the station's own tag, also when
\* the destination of its instruction is one of its sources and when the
\* station holds its second instruction.
C36_NoSelfWait ==
    \A k \in StationIdx :
        stations[k].busy
        => /\ stations[k].qj # stations[k].name
           /\ stations[k].qk # stations[k].name

\* The third instruction of a class with two stations sits in a station that
\* held an earlier instruction; its destination is one of its sources, the
\* status of that register names the station itself, and the station waits
\* for the tag of the other station of the class.
C36_Witness ==
    /\ Len(instructions) = 3
    /\ \A n \in InstrIdx : UnitPool(instructions[n].op) = UnitPool(instructions[3].op)
    /\ instructions[3].op \in {"MUL", "DIV", "LOAD"}
    /\ instructions[3].dest \in Reads(instructions[3])
    /\ \E k \in StationIdx :
          /\ stations[k].busy
          /\ stations[k].instruction = Some(3)
          /\ get_status(status, instructions[3].dest) = stations[k].name
          /\ stations[k].qj # None
          /\ stations[k].qj # stations[k].name
          /\ stations[StationOf(stations[k].qj)].busy
          /\ stations[StationOf(stations[k].qj)].instruction = Some(2)

\* The units bound to station k.
UnitsOn(k) == {u \in 1..NumUnits : units[u].reservation_station = stations[k].name}

\* C37: unit/station binding.  In every state after a tick each busy unit
\* references exactly one station, which is busy and executing and mirrors
\* the unit's cycles_left, greater than 0; each executing station is
\* referenced by exactly one unit, which is busy; no two units reference
\* the same station; an idle unit references no station.
C37_UnitStationBinding ==
    /\ \A u \in 1..NumUnits :
          IF units[u].busy
          THEN /\ units[u].cycles_left > 0
               /\ Cardinality({k \in StationIdx :
                       stations[k].name = units[u].reservation_station}) = 1
               /\ \A k \in StationIdx :
                     stations[k].name = units[u].reservation_station
                     => /\ stations[k].busy
                        /\ stations[k].executing
                        /\ stations[k].execution_cycles_left = units[u].cycles_left
                        /\ stations[k].op \in units[u].supported_ops
          ELSE units[u].reservation_station = None
    /\ \A k \in StationIdx :
          /\ stations[k].executing
                => /\ stations[k].busy
                   /\ Cardinality(UnitsOn(k)) = 1
                   /\ \A u \in UnitsOn(k) : units[u].busy
          /\ ~stations[k].executing => UnitsOn(k) = {}

\* Three units are busy, each on a station of its own, with three different
\* numbers of cycles left, all mirrored in the stations.
C37_Witness ==
    \E u, v, w \in 1..NumUnits :
        /\ u < v /\ v < w
        /\ units[u].busy /\ units[v].busy /\ units[w].busy
        /\ Cardinality({units[x].cycles_left : x \in {u, v, w}}) = 3
        /\ Cardinality({units[x].reservation_station : x \in {u, v, w}}) = 3
        /\ \A x \in {u, v, w} :
              LET k == StationOf(units[x].reservation_station)
              IN /\ stations[k].executing
                 /\ stations[k].execution_cycles_left = units[x].cycles_left

\* The memory after compute_result of the STORE held by station k:
\* memory.write(rs.address, rs.vk), the address being the sum vj + offset
\* that execute stored in the station and the value the station's vk, None
\* included.  With the address None the write raises TypeError and the
\* memory stays as it is.
StoreWrite(k) ==
    IF stations[k].address = Nil THEN memory
    ELSE MemWrite(memory, Val(stations[k].address), content(stations[k].vk))

\* C38: each STORE writes memory exactly once, at vj + offset with vk, in
\* the tick in which its write-back is processed and its station released;
\* memory changes in no other tick.
C38_StoreWritesOnce ==
    [][/\ \A k \in StoreIdx :
             (stations[k].busy /\ Processed(k))
             => /\ memory' = StoreWrite(k)
                /\ ~(stations'[k].busy /\ stations'[k].instruction = stations[k].instruction)
       /\ memory' # memory
             => \E k \in StoreIdx : stations[k].busy /\ Processed(k)]_vars

\* C40: status entries are valid.  In every reachable state each entry of
\* the register status is the scalar None or the tag of a busy station that
\* is not a STORE buffer and whose destination is that register, never the
\* list [None] and never the tag of a free station; when the simulation is
\* done every entry is None.
C40_StatusValid ==
    /\ \A r \in RegIdx :
          /\ status[r] # "[None]"
          /\ status[r] # None
                => \E k \in StationIdx :
                      /\ stations[k].name = status[r]
                      /\ stations[k].busy
                      /\ stations[k].op # "STORE"
                      /\ k \notin StoreIdx
                      /\ names_register(stations[k].dest, r)
    /\ phase = "done" => \A r \in RegIdx : status[r] = None

\* A write-back cleared the status of a register in this tick while an
\* earlier producer of the same register is still busy, and the status of
\* another register names a busy station.
C40_Witness ==
    /\ cdb.busy
    /\ \E r \in RegIdx :
          /\ status[r] = None
          /\ BusyWithDest(r) # {}
          /\ \E n \in InstrIdx :
                /\ names_register(instructions[n].dest, r)
                /\ instructions[n].write_result_cycle = Some(cycle)
    /\ \E q \in RegIdx :
          /\ status[q] # None
          /\ stations[StationOf(status[q])].busy

\* The value an arithmetic instruction computes from its two operands.
ArithResult(op, a, b) ==
    IF op = "ADD" THEN a + b
    ELSE IF op = "SUB" THEN a - b
    ELSE IF op = "MUL" THEN a * b
    ELSE IF b = 0 THEN 0 ELSE FloorDiv(a, b)

\* The registers after the instructions n.. of the trace were executed one
\* at a time, in program order, from the registers regs.
RECURSIVE Sequential(_, _, _)
Sequential(regs, trace, n) ==
    IF n > Len(trace) THEN regs
    ELSE Sequential(
             write(regs, trace[n].dest,
                   ArithResult(trace[n].op, read(regs, trace[n].src1),
                               read(regs, trace[n].src2))),
             trace, n + 1)

\* The trace holds arithmetic instructions with pairwise distinct
\* destinations.
ArithNoWaw ==
    /\ \A n \in InstrIdx : instructions[n].op \in {"ADD", "SUB", "MUL", "DIV"}
    /\ \A n, m \in InstrIdx : n # m => instructions[n].dest # instructions[m].dest

\* C39: sequential equivalence without WAW.  When the run of a trace of
\* ADD/SUB/MUL/DIV instructions with pairwise distinct destinations is done,
\* the registers hold the values that executing the trace one instruction
\* at a time in program order gives, DIV by zero yielding 0.
C39_SequentialEquivalence ==
    (phase = "done" /\ ArithNoWaw)
    => registers = Sequential(ScenarioRegisters, instructions, 1)

\* The run of three instructions is done: the second and the third waited
\* for the first, the completion of the third lost the bus to the second
\* and it was executed again, and the third overwrote a register the second
\* had read.
C39_Witness ==
    /\ phase = "done"
    /\ Len(instructions) = 3
    /\ ArithNoWaw
    /\ instructions[1].dest \in Reads(instructions[2]) \cap Reads(instructions[3])
    /\ instructions[3].dest \in Reads(instructions[2])
    /\ instructions[2].dest \notin Reads(instructions[3])
    /\ instructions[2].start_cycle = instructions[1].write_result_cycle
    /\ instructions[3].start_cycle = instructions[2].write_result_cycle
    /\ registers # ScenarioRegisters

\* The run of a trace is done in which a DIV divided by the 0 an earlier
\* instruction had written.
C39_WitnessDivByZero ==
    /\ phase = "done"
    /\ ArithNoWaw
    /\ \E m, n \in InstrIdx :
          /\ m < n
          /\ instructions[n].op = "DIV"
          /\ instructions[n].src2 = instructions[m].dest
          /\ instructions[n].dest # instructions[n].src2
          /\ read(registers, instructions[n].src2) = 0
          /\ read(registers, instructions[n].dest) = 0

NotW == ~(C28_Witness)
====
